---- MODULE Spec2Model ----
(***************************************************************************)
(* Model of the clawdlocal core (package core): the event loop, the        *)
(* message router and the tool registry.                                   *)
(*                                                                         *)
(* The loop is an object shared by caller goroutines (Start, Stop, Emit,   *)
(* RegisterHandler) and by the consumer goroutines that Start spawns       *)
(* (run / handleEvent).  Every step of the model is one critical section   *)
(* or one channel / context / WaitGroup operation of the Go code, so that  *)
(* the interleavings of the model are the interleavings the Go scheduler   *)
(* can produce.  The message router keeps its handler lists in Go slices:  *)
(* a list is a backing array with a length, append writes in place while   *)
(* the array has room and moves to a larger array otherwise, and a slice   *)
(* read earlier keeps referring to the array it was read from.             *)
(***************************************************************************)
EXTENDS Naturals, Sequences, FiniteSets

\* ---------------------------------------------------------------- bounds
NumCallers == 2
MaxConsumers == 2
\* The bufferSize given to NewEventLoop: the small channel on which every
\* interleaving with Stop is explored, and the larger one on which the order
\* of the buffered events shows.
MinQueue == 1
MaxQueue == 2
MaxHandlers == 2

\* Calls of MessageRouter.RegisterHandler, writes to a GetHandlers result.
MaxRegistrations == 4
MaxWrites == 1
\* Calls of RegisterTool, calls of ExecuteTool.
MaxToolRegs == 3
MaxToolCalls == 2
\* Memory manager: the configured capacity of the short-term store, the last
\* clock value, and the number of calls and of re-constructions a run makes.
ShortTermCapacity == 2
MaxTime == 2
MaxMemCalls == 3
MaxRestarts == 2
\* Message queue: the bufferSize given to NewMessageQueue and the number of
\* calls a run makes.
BufferSize == 1
MaxQueueCalls == 4

Callers == 1..NumCallers
Consumers == 1..MaxConsumers
\* Sends are capped at one more than the queue holds, so that it can overflow.
MaxEvents == MaxQueue + 1
EventIds == 1..MaxEvents

\* ------------------------------------------------------- program constants
ErrEventLoopNotRunning == "event loop is not running"
ErrEventQueueFull == "event queue is full"
ErrContextCanceled == "context canceled"
EventTypeMessage == "message"
EventTypeToolCall == "tool_call"
EventTypes == {EventTypeMessage, EventTypeToolCall}

\* The event handlers a caller may register.  ToolCallHandler accepts
\* tool_call events only and its Handle can fail; SimpleHandler accepts every
\* event type and its Handle always returns nil.
ToolCallHandler == "ToolCallHandler"
SimpleHandler == "SimpleHandler"
HandlerKinds == {ToolCallHandler, SimpleHandler}

CanHandle(h, eventType) ==
    IF h = ToolCallHandler THEN eventType = EventTypeToolCall ELSE TRUE

\* Whether Handle of handler h has a path that returns an error.
MayFail(h) == h = ToolCallHandler

NoEvent == [id |-> 0, type |-> "none"]
NoPanic == "none"
PanicSendOnClosed == "send on closed channel"
PanicCloseOfClosed == "close of closed channel"
PanicWaitGroupReused ==
    "sync: WaitGroup is reused before previous Wait has returned"
PanicWaitGroupMisuse == "sync: WaitGroup misuse: Add called concurrently with Wait"

\* ---------------------------------------------- message router constants
MessageTypeUserInput == "user_input"
MessageTypeSystemEvent == "system_event"
MessageTypeToolResponse == "tool_response"
MessageTypeAgentMessage == "agent_message"
MessageTypeExternalEvent == "external_event"
MessageTypeMemoryStore == "memory_store"

\* The message types RegisterHandler offers to a handler, in its order.
BuiltinTypes ==
    <<MessageTypeUserInput, MessageTypeSystemEvent, MessageTypeToolResponse,
      MessageTypeAgentMessage, MessageTypeExternalEvent>>
MessageTypes ==
    {BuiltinTypes[i] : i \in 1..Len(BuiltinTypes)} \cup {MessageTypeMemoryStore}

\* The message handlers of the repository: what CanHandle accepts, what
\* Priority returns, and whether Handle has a path that returns an error.
CustomMessageHandler == "CustomMessageHandler"
EchoHandler == "EchoHandler"
MemoryMessageHandler == "MemoryMessageHandler"
ToolCallMessageHandler == "ToolCallMessageHandler"
MessageHandlerKinds ==
    {CustomMessageHandler, EchoHandler, MemoryMessageHandler,
     ToolCallMessageHandler}

MsgCanHandle(k, msgType) ==
    CASE k = MemoryMessageHandler -> msgType = MessageTypeMemoryStore
      [] k = ToolCallMessageHandler -> msgType = MessageTypeToolResponse
      [] OTHER -> TRUE

Priority(k) ==
    CASE k = CustomMessageHandler -> 10
      [] k = EchoHandler -> 50
      [] k = MemoryMessageHandler -> 150
      [] k = ToolCallMessageHandler -> 200
      [] OTHER -> 0

MsgMayFail(k, msgType) ==
    CASE k = MemoryMessageHandler -> TRUE
      [] k = ToolCallMessageHandler -> msgType = MessageTypeToolResponse
      [] OTHER -> FALSE

\* A handler value: its type and which RegisterHandler call passed it (each
\* call passes a handler object of its own).
NoHandler == [kind |-> "nil", reg |-> 0]
HandlerValue(k, n) == [kind |-> k, reg |-> n]

\* Route's error for a type without handlers; the error of a failing handler.
ErrNoHandlers(msgType) == <<"no handlers registered for message type", msgType>>
HandlerError(h) == <<"error of", h>>
NilError == <<"nil">>

\* append: the capacity of the array allocated when the old one is full.
GrowCap(cap) == IF cap = 0 THEN 1 ELSE 2 * cap

\* A slice of handlers: arr is the backing array (its length the capacity),
\* len the length of the slice; a map entry that was never assigned is absent.
AbsentList == [exists |-> FALSE, arr |-> <<>>, len |-> 0]
ListOf(l) == SubSeq(l.arr, 1, l.len)

\* ------------------------------------------------ tool registry constants
ToolEcho == "echo"
ToolCurrentTime == "current_time"
ToolNames == {ToolEcho, ToolCurrentTime}
NoTool == [name |-> "none", reg |-> 0]

\* What a tool handler returns: a value, or an error whose message may be any
\* string, the empty string included.
OutcomeValue == [err |-> FALSE, text |-> "value"]
OutcomeError == [err |-> TRUE, text |-> "missing message parameter"]
OutcomeEmptyError == [err |-> TRUE, text |-> ""]
HandlerOutcomes == {OutcomeValue, OutcomeError, OutcomeEmptyError}

\* fmt.Errorf("tool %s already registered", name) and
\* fmt.Sprintf("tool %s not found", name).
ErrAlreadyRegistered(name) ==
    IF name = ToolEcho THEN "tool echo already registered"
    ELSE "tool current_time already registered"
ToolNotFound(name) ==
    IF name = ToolEcho THEN "tool echo not found"
    ELSE "tool current_time not found"
\* The ids a caller gives its tool calls.
CallIds == {"call-1", "call-2"}

\* ------------------------------------------------ memory manager constants
\* Keys are arbitrary strings, the empty string included.
Keys == {"", "test_key", "user"}
LongKeys == {"long_test_key", "test_long_key"}
ShortValues == {"test_value", "other_value"}
\* The ttl arguments of SetShortTermMemory: negative, zero, and one clock unit.
TtlArgs == {0 - 1, 0, 1}
\* MemoryEntry.TTL is a pointer: nil when no TTL is attached.
NoTTL == 0
NilValue == "nil"
\* A map without an entry for the key.
NoEntry == [value |-> NilValue, ts |-> 0, ttl |-> NoTTL]
MemoryEntry(v, ts, ttl) == [value |-> v, ts |-> ts, ttl |-> ttl]
\* Long-term values are Go values of any type: a string, an int; a float64 is
\* what encoding/json decodes a number into.
ValueText == "string long_test_value"
ValueInt == "int 42"
ValueFloat == "float64 42"
LongValues == {ValueText, ValueInt}
\* json.Marshal of a value, and json.Unmarshal of the text into interface{}.
JsonNumber == "42"
JsonString == "\"long_test_value\""
NoJson == "absent"
JsonMarshal(v) == IF v = ValueText THEN JsonString ELSE JsonNumber
JsonUnmarshal(j) == IF j = JsonString THEN ValueText ELSE ValueFloat
\* The errors of the durable write and of the load.
\* The queries of SearchMemory, strings.ToLower of a query, and
\* strings.Contains of a lower-cased key or rendered value and a query.
Queries == {"", "TEST", "value"}
ToLower(q) == IF q = "TEST" THEN "test" ELSE q
Contains(str, q) ==
    \/ q = ""
    \/ q = "test" /\ str \in {"test_key", "test_value", "long_test_key",
                              "test_long_key", "long_test_value"}
    \/ q = "value" /\ str \in {"test_value", "other_value", "long_test_value"}
\* fmt.Sprintf("%v", value).
Sprintf(v) ==
    IF v = ValueText THEN "long_test_value"
    ELSE IF v \in {ValueInt, ValueFloat} THEN "42" ELSE v
ErrCreateDirectory == "failed to create directory"
ErrWriteFile == "failed to write long-term memory file"
ErrReadFile == "failed to read long-term memory file"
ErrUnmarshal == "failed to unmarshal long-term memory"
NoOne == 0
Sweeper == NumCallers + 1

VARIABLES
    bufferSize,       \* cap(el.events), the bufferSize given to NewEventLoop
    running,          \* el.running
    ctxDone,          \* el.ctx is cancelled
    closed,           \* el.events has been closed
    events,           \* the buffered contents of el.events
    handlers,         \* el.handlers
    wg,               \* el.wg counter
    panicked,         \* the runtime panic that ended the process, if any
    pc,               \* per caller: where it is inside Start / Stop / Emit
    arg,              \* per caller: the event of the Emit in progress
    lastRet,          \* the call that returned last: its return statement and value
    cpc,              \* per consumer goroutine: where it is in run/handleEvent
    cur,              \* per consumer: the event being dispatched
    snap,             \* per consumer: handleEvent's copy of el.handlers
    idx,              \* per consumer: position of the range loop in snap
    handled,          \* per consumer: handleEvent's local flag
    invoked,          \* history: positions of snap whose Handle was called
    sent,             \* history: number of events sent to the channel; the
                      \* k-th event sent carries id k, so ids are enqueue order
    recvLog,          \* history: ids of the events received by consumers
    finished,         \* history: ids whose handleEvent has returned
    pendingAtCancel,  \* history: ids buffered when the context was cancelled
    clean,            \* history: per caller, its Stop began with no Start in progress
    stopDone,         \* history: such a Stop has returned and no Start began since
    routerMu,         \* r.mu: "free", or "write" while RegisterHandler holds it
    routerHandlers,   \* r.handlers: per message type, the slice stored in the map
    reg,              \* the RegisterHandler call in progress: position and locals
    registered,       \* history: the handler types registered, in call order
    route,            \* the client's Route call: position, locals, return value
    got,              \* the slice the client's GetHandlers call returned
    tools,            \* the registry's tools map: per name, the tool stored
    toolLog,          \* history: the RegisterTool calls made, in lock order
    toolCalls,        \* number of ExecuteTool calls made
    exec,             \* per caller: the ExecuteTool call in progress
    toolRet,          \* per caller: what its last registry call returned
    handlerRuns,      \* history: the tool handler invocations, in order
    toolReaders,      \* tm.mu: the callers that hold the read lock
    now,              \* the clock time.Now() reads
    shortTerm,        \* mm.shortTerm: per key, the entry stored
    longTerm,         \* mm.longTerm: per key, the entry stored
    file,             \* the file at config.LongTermFile
    memMu,            \* mm.mutex: the readers and the writer that hold it
    mem,              \* per caller: the memory call in progress
    memRet,           \* what the memory call that returned last returned
    sweep,            \* the StartCleanup goroutine: off, idle, locked, swept
                      \* (idle after a pass that removed entries), stopped
    memCalls,         \* number of memory calls made
    restarts,         \* number of managers constructed on the file after the first
    lastSave,         \* history: how this manager's last durable write ended
    loadErr,          \* the error loadLongTermMemory gave NewMemoryManager
    durable,          \* history: the keys a SetLongTermMemory stored with success
    queue,            \* q.queue: the buffered messages
    qClosed,          \* q.closed
    qCtxDone,         \* q.ctx is cancelled
    qChanClosed,      \* q.queue has been closed
    qMu,              \* q.mu: the caller that holds it
    mq,               \* per caller: the queue call in progress
    qRet,             \* what the queue call that returned last returned
    qCalls,           \* number of queue calls made
    qPanic            \* the runtime panic a queue call ended in, if any

loopVars == <<running, ctxDone, closed, events, handlers, wg, panicked>>
callerVars == <<pc, arg, lastRet>>
consumerVars == <<cpc, cur, snap, idx, handled>>
dispatchHist == <<invoked, finished>>
queueHist == <<sent, recvLog, pendingAtCancel>>
lifeHist == <<clean, stopDone>>
eventLoopVars ==
    <<bufferSize, loopVars, callerVars, consumerVars, dispatchHist, queueHist,
      lifeHist>>
routerVars == <<routerMu, routerHandlers, reg, registered, route, got>>
toolVars ==
    <<tools, toolLog, toolCalls, exec, toolRet, handlerRuns, toolReaders>>
shortVars == <<now, shortTerm, sweep>>
longVars == <<longTerm, file, restarts, lastSave, loadErr, durable>>
memCallVars == <<memMu, mem, memRet, memCalls>>
memoryVars == <<shortVars, longVars, memCallVars>>
queueVars ==
    <<queue, qClosed, qCtxDone, qChanClosed, qMu, mq, qRet, qCalls, qPanic>>
vars == <<eventLoopVars, routerVars, toolVars, memoryVars, queueVars>>
\* What the operations of one component leave alone.  The capacity of
\* el.events is fixed when the channel is made: no operation writes it.
notEventLoop == <<bufferSize, routerVars, toolVars, memoryVars, queueVars>>
notRouter == <<eventLoopVars, toolVars, memoryVars, queueVars>>
notTools == <<eventLoopVars, routerVars, memoryVars, queueVars>>
notMemory == <<eventLoopVars, routerVars, toolVars, queueVars>>
notQueue == <<eventLoopVars, routerVars, toolVars, memoryVars>>

\* A return of operation op at source line `line` with value val.
Ret(op, line, val) == [op |-> op, line |-> line, val |-> val]
NoReturn == Ret("none", 0, "none")

IdSet(q) == {q[i].id : i \in 1..Len(q)}
Alive(c) == cpc[c] \notin {"none", "exited"}
StartInProgress == \E u \in Callers : pc[u] = "start_spawn"
\* No Start has ever set el.running: no consumer was spawned or is about to be.
NeverStarted == (\A c \in Consumers : cpc[c] = "none") /\ ~StartInProgress
\* Some Stop has cleared el.running: it is about to cancel or has cancelled.
StopBegun == ctxDone \/ \E u \in Callers : pc[u] = "stop_cancel"

\* No RegisterHandler, Route or GetHandlers call in progress or returned.
NotReturned == <<"none">>
RegIdle == [pc |-> "idle", h |-> NoHandler, ti |-> 0, i |-> 0]
RouteIdle ==
    [pc |-> "idle", ty |-> "none", shared |-> FALSE, own |-> <<>>, len |-> 0,
     k |-> 0, h |-> NoHandler, firstErr |-> NilError, list |-> <<>>,
     log |-> <<>>, failed |-> <<>>, ret |-> NotReturned]
NoSlice ==
    [ty |-> "none", shared |-> FALSE, own |-> <<>>, len |-> 0, writes |-> 0]

\* NewMessageRouter: an empty handlers map, the lock free.
RouterInit ==
    /\ routerMu = "free"
    /\ routerHandlers = [ty \in MessageTypes |-> AbsentList]
    /\ reg = RegIdle
    /\ registered = <<>>
    /\ route = RouteIdle
    /\ got = NoSlice

\* A tool: its name and which RegisterTool call passed it.  A ToolResult and
\* the Go error returned beside it; Result "nil" is the unset field.
ToolValue(name, n) == [name |-> name, reg |-> n]
ToolResult(id, name, result, error) ==
    [op |-> "ExecuteTool", id |-> id, name |-> name, result |-> result,
     error |-> error, err |-> "nil", list |-> {}]
RegisterResult(name, err) ==
    [op |-> "RegisterTool", id |-> "none", name |-> name, result |-> "nil",
     error |-> "", err |-> err, list |-> {}]
\* What GetTool and ListTools return: the tool found (none: the nil pointer
\* and exists = false), and the tools of the registry.
GetToolResult(name, tool) ==
    [op |-> "GetTool", id |-> "none", name |-> name, result |-> "nil",
     error |-> "", err |-> "nil", list |-> {tool} \ {NoTool}]
ListToolsResult(all) ==
    [op |-> "ListTools", id |-> "none", name |-> "none", result |-> "nil",
     error |-> "", err |-> "nil", list |-> all]
\* regs: the number of RegisterTool calls made when the handler was called.
ExecIdle ==
    [pc |-> "idle", id |-> "none", name |-> "none", tool |-> NoTool, regs |-> 0]
NoToolRet == [op |-> "none", id |-> "none", name |-> "none", result |-> "nil",
              error |-> "", err |-> "nil", list |-> {}]

\* NewToolManager / NewToolRegistry: an empty tools map.
ToolInit ==
    /\ tools = [n \in ToolNames |-> NoTool]
    /\ toolLog = <<>>
    /\ toolCalls = 0
    /\ exec = [t \in Callers |-> ExecIdle]
    /\ toolRet = [t \in Callers |-> NoToolRet]
    /\ handlerRuns = <<>>
    /\ toolReaders = {}

\* The file at the storage path: missing, empty, cut short by a failed write,
\* or the JSON object of a snapshot, per key the JSON text of its value.
NoFileEntry == [json |-> NoJson, ts |-> 0]
NoData == [k \in LongKeys |-> NoFileEntry]
FileMissing == [kind |-> "missing", data |-> NoData]
FileEmpty == [kind |-> "empty", data |-> NoData]
FilePartial == [kind |-> "partial", data |-> NoData]
FileJson(data) == [kind |-> "json", data |-> data]
\* A caller in no memory call; a memory call's return values.
MemCall(at, op, key, value, ttl) ==
    [pc |-> at, op |-> op, key |-> key, value |-> value, ttl |-> ttl,
     entry |-> NoEntry, long |-> FALSE]
MemIdle == MemCall("idle", "none", "none", NilValue, NoTTL)
MemReturn(op, t, key, value, found, err) ==
    [op |-> op, by |-> t, key |-> key, value |-> value, found |-> found,
     err |-> err, entries |-> {}, results |-> <<>>,
     stats |-> [total |-> 0, valid |-> 0, long |-> 0]]
NoMemRet == MemReturn("none", NoOne, "none", NilValue, FALSE, "nil")
MemFree == [readers |-> {}, writer |-> NoOne]

\* NewMemoryManager, lines 42-64, on a path without a file: empty maps, a free
\* lock, no cleanup goroutine.
MemoryInit ==
    /\ now = 0
    /\ shortTerm = [k \in Keys |-> NoEntry]
    /\ longTerm = [k \in LongKeys |-> NoEntry]
    /\ file = FileMissing
    /\ memMu = MemFree
    /\ mem = [t \in Callers |-> MemIdle]
    /\ memRet = NoMemRet
    /\ sweep = "off"
    /\ memCalls = 0
    /\ restarts = 0
    /\ lastSave = "none"
    /\ loadErr = "nil"
    /\ durable = {}

\* NewMessageQueue, lines 128-135: an open queue with an empty buffer.
ErrQueueClosed == "message queue is closed"
ErrQueueCancelled == "message queue context cancelled"
QueueIdle == [pc |-> "idle", op |-> "none", msg |-> 0]
QueueReturn(op, t, val, err) == [op |-> op, by |-> t, val |-> val, err |-> err]
NoQueueRet == QueueReturn("none", NoOne, "none", "nil")
QueueInit ==
    /\ queue = <<>>
    /\ qClosed = FALSE
    /\ qCtxDone = FALSE
    /\ qChanClosed = FALSE
    /\ qMu = NoOne
    /\ mq = [t \in Callers |-> QueueIdle]
    /\ qRet = NoQueueRet
    /\ qCalls = 0
    /\ qPanic = NoPanic

\* NewEventLoop, lines 63-78: an empty channel of the given bufferSize, no
\* handler, not running; beside it a new router, a new tool registry, a new
\* memory manager and a new message queue.
NewEventLoop(size) ==
    /\ bufferSize = size
    /\ running = FALSE
    /\ ctxDone = FALSE
    /\ closed = FALSE
    /\ events = <<>>
    /\ handlers = <<>>
    /\ wg = 0
    /\ panicked = NoPanic
    /\ pc = [t \in Callers |-> "idle"]
    /\ arg = [t \in Callers |-> "none"]
    /\ lastRet = NoReturn
    /\ cpc = [c \in Consumers |-> "none"]
    /\ cur = [c \in Consumers |-> NoEvent]
    /\ snap = [c \in Consumers |-> <<>>]
    /\ idx = [c \in Consumers |-> 0]
    /\ handled = [c \in Consumers |-> FALSE]
    /\ invoked = [c \in Consumers |-> <<>>]
    /\ sent = 0
    /\ recvLog = <<>>
    /\ finished = {}
    /\ pendingAtCancel = {}
    /\ clean = [t \in Callers |-> FALSE]
    /\ stopDone = FALSE
    /\ RouterInit
    /\ ToolInit
    /\ MemoryInit
    /\ QueueInit

\* The program after construction, with the small and with the larger
\* event channel.
Init == NewEventLoop(MinQueue)
BufferInit == NewEventLoop(MaxQueue)

\* ------------------------------------------------------- RegisterHandler
RegisterHandler(t, h) ==
    /\ panicked = NoPanic
    /\ pc[t] = "idle"
    /\ Len(handlers) < MaxHandlers
    /\ handlers' = Append(handlers, h)
    /\ UNCHANGED <<running, ctxDone, closed, events, wg, panicked, callerVars>>
    /\ UNCHANGED <<consumerVars, dispatchHist, queueHist, lifeHist>>
    /\ UNCHANGED notEventLoop

\* ----------------------------------------------------------------- Start
\* Start without the test of el.running.
StartLockNoRunningTest(t) ==
    /\ panicked = NoPanic
    /\ pc[t] = "idle"
    /\ Cardinality({c \in Consumers : cpc[c] = "none"})
          > Cardinality({u \in Callers : pc[u] = "start_spawn"})
    /\ running' = TRUE
    /\ pc' = [pc EXCEPT ![t] = "start_spawn"]
    /\ stopDone' = FALSE
    /\ clean' = [u \in Callers |-> FALSE]
    /\ UNCHANGED <<ctxDone, closed, events, handlers, wg, panicked>>
    /\ UNCHANGED <<arg, lastRet>>
    /\ UNCHANGED <<consumerVars, dispatchHist, queueHist>>
    /\ UNCHANGED notEventLoop

\* Start, lines 89-95: the critical section that tests and sets el.running.
StartLock(t) ==
    /\ panicked = NoPanic
    /\ pc[t] = "idle"
    /\ IF running
       THEN /\ lastRet' = Ret("Start", 92, "nil")
            /\ UNCHANGED <<loopVars, pc, arg, lifeHist>>
       ELSE /\ Cardinality({c \in Consumers : cpc[c] = "none"})
                  > Cardinality({u \in Callers : pc[u] = "start_spawn"})
            /\ running' = TRUE
            /\ pc' = [pc EXCEPT ![t] = "start_spawn"]
            /\ stopDone' = FALSE
            /\ clean' = [u \in Callers |-> FALSE]
            /\ UNCHANGED <<ctxDone, closed, events, handlers, wg, panicked>>
            /\ UNCHANGED <<arg, lastRet>>
    /\ UNCHANGED <<consumerVars, dispatchHist, queueHist>>
    /\ UNCHANGED notEventLoop

\* el.wg is a sync.WaitGroup.  A Wait call that finds the counter positive
\* blocks; the Done that brings the counter to zero releases the callers
\* blocked in Wait, each of which, once it runs again, panics when it finds
\* the WaitGroup in use again.
WaitReleased(p) ==
    [u \in Callers |-> IF p[u] = "stop_blocked" THEN "stop_released" ELSE p[u]]
\* A caller has been released from Wait and has not run since: the Done that
\* released it may still be between its decrement and its reset of the state.
WaitJustReleased == wg = 0 /\ \E u \in Callers : pc[u] = "stop_released"

\* Start, lines 98-101: el.wg.Add(1); go el.run(); return nil.  An Add that
\* meets the Done that is releasing the waiters panics (in Add or in Done).
StartSpawn(t) ==
    /\ panicked = NoPanic
    /\ pc[t] = "start_spawn"
    /\ \/ /\ LET c == CHOOSE x \in Consumers :
                         /\ cpc[x] = "none"
                         /\ \A y \in Consumers : cpc[y] = "none" => x <= y
             IN  cpc' = [cpc EXCEPT ![c] = "select"]
          /\ wg' = wg + 1
          /\ pc' = [pc EXCEPT ![t] = "idle"]
          /\ lastRet' = Ret("Start", 101, "nil")
          /\ UNCHANGED panicked
       \/ /\ WaitJustReleased
          /\ panicked' = PanicWaitGroupMisuse
          /\ UNCHANGED <<cpc, wg, pc, lastRet>>
    /\ UNCHANGED <<running, ctxDone, closed, events, handlers, arg>>
    /\ UNCHANGED <<cur, snap, idx, handled, dispatchHist, queueHist, lifeHist>>
    /\ UNCHANGED notEventLoop

\* ------------------------------------------------------------------ Stop
\* Stop without the test of el.running.
StopLockNoRunningTest(t) ==
    /\ panicked = NoPanic
    /\ pc[t] = "idle"
    /\ running' = FALSE
    /\ pc' = [pc EXCEPT ![t] = "stop_cancel"]
    /\ clean' = [clean EXCEPT ![t] = ~StartInProgress]
    /\ UNCHANGED <<ctxDone, closed, events, handlers, wg, panicked>>
    /\ UNCHANGED <<arg, lastRet, stopDone>>
    /\ UNCHANGED <<consumerVars, dispatchHist, queueHist>>
    /\ UNCHANGED notEventLoop

\* Stop, lines 106-112: the critical section that tests and clears el.running.
StopLock(t) ==
    /\ panicked = NoPanic
    /\ pc[t] = "idle"
    /\ IF ~running
       THEN /\ lastRet' = Ret("Stop", 109, "return")
            /\ stopDone' = (stopDone \/ ~StartInProgress)
            /\ UNCHANGED <<loopVars, pc, arg, clean>>
       ELSE /\ running' = FALSE
            /\ pc' = [pc EXCEPT ![t] = "stop_cancel"]
            /\ clean' = [clean EXCEPT ![t] = ~StartInProgress]
            /\ UNCHANGED <<ctxDone, closed, events, handlers, wg, panicked>>
            /\ UNCHANGED <<arg, lastRet, stopDone>>
    /\ UNCHANGED <<consumerVars, dispatchHist, queueHist>>
    /\ UNCHANGED notEventLoop

\* Stop, line 115: el.cancel().
StopCancel(t) ==
    /\ panicked = NoPanic
    /\ pc[t] = "stop_cancel"
    /\ ctxDone' = TRUE
    /\ pendingAtCancel' = IF ctxDone THEN pendingAtCancel ELSE IdSet(events)
    /\ pc' = [pc EXCEPT ![t] = "stop_close"]
    /\ UNCHANGED <<running, closed, events, handlers, wg, panicked, arg, lastRet>>
    /\ UNCHANGED <<consumerVars, dispatchHist, sent, recvLog, lifeHist>>
    /\ UNCHANGED notEventLoop

\* Stop, line 116: close(el.events); closing a closed channel panics.
StopClose(t) ==
    /\ panicked = NoPanic
    /\ pc[t] = "stop_close"
    /\ IF closed
       THEN /\ panicked' = PanicCloseOfClosed
            /\ UNCHANGED <<closed, pc>>
       ELSE /\ closed' = TRUE
            /\ pc' = [pc EXCEPT ![t] = "stop_wait"]
            /\ UNCHANGED panicked
    /\ UNCHANGED <<running, ctxDone, events, handlers, wg, arg, lastRet>>
    /\ UNCHANGED <<consumerVars, dispatchHist, queueHist, lifeHist>>
    /\ UNCHANGED notEventLoop

\* Stop, line 117: el.wg.Wait() is called.  With the counter at zero it
\* returns at once, and Stop returns; otherwise the caller blocks.
StopWait(t) ==
    /\ panicked = NoPanic
    /\ pc[t] = "stop_wait"
    /\ IF wg = 0
       THEN /\ pc' = [pc EXCEPT ![t] = "idle"]
            /\ lastRet' = Ret("Stop", 118, "return")
            /\ stopDone' = (stopDone \/ clean[t])
       ELSE /\ pc' = [pc EXCEPT ![t] = "stop_blocked"]
            /\ UNCHANGED <<lastRet, stopDone>>
    /\ UNCHANGED <<loopVars, arg, clean>>
    /\ UNCHANGED <<consumerVars, dispatchHist, queueHist>>
    /\ UNCHANGED notEventLoop

\* Stop, lines 117-118: the caller released from Wait runs again.  Wait
\* panics when the counter is positive again (a Start has called Add since
\* the release); otherwise it returns, and Stop returns.
StopWake(t) ==
    /\ panicked = NoPanic
    /\ pc[t] = "stop_released"
    /\ IF wg # 0
       THEN /\ panicked' = PanicWaitGroupReused
            /\ UNCHANGED <<pc, lastRet, stopDone>>
       ELSE /\ pc' = [pc EXCEPT ![t] = "idle"]
            /\ lastRet' = Ret("Stop", 118, "return")
            /\ stopDone' = (stopDone \/ clean[t])
            /\ UNCHANGED panicked
    /\ UNCHANGED <<running, ctxDone, closed, events, handlers, wg>>
    /\ UNCHANGED <<arg, clean>>
    /\ UNCHANGED <<consumerVars, dispatchHist, queueHist>>
    /\ UNCHANGED notEventLoop

\* ------------------------------------------------------------------ Emit
\* Emit without the test of el.running.
EmitCheckNoRunningTest(t, ty) ==
    /\ panicked = NoPanic
    /\ pc[t] = "idle"
    /\ sent + Cardinality({u \in Callers : pc[u] = "emit_select"})
           < bufferSize + 1
    /\ pc' = [pc EXCEPT ![t] = "emit_select"]
    /\ arg' = [arg EXCEPT ![t] = ty]
    /\ UNCHANGED lastRet
    /\ UNCHANGED <<loopVars, consumerVars, dispatchHist, queueHist, lifeHist>>
    /\ UNCHANGED notEventLoop

\* Emit, lines 122-127: the read-locked test of el.running.  The guard caps
\* the number of events that can ever be sent at one more than the channel
\* holds.
EmitCheck(t, ty) ==
    /\ panicked = NoPanic
    /\ pc[t] = "idle"
    /\ sent + Cardinality({u \in Callers : pc[u] = "emit_select"})
           < bufferSize + 1
    /\ IF ~running
       THEN /\ lastRet' = Ret("Emit", 125, ErrEventLoopNotRunning)
            /\ UNCHANGED <<pc, arg>>
       ELSE /\ pc' = [pc EXCEPT ![t] = "emit_select"]
            /\ arg' = [arg EXCEPT ![t] = ty]
            /\ UNCHANGED lastRet
    /\ UNCHANGED <<loopVars, consumerVars, dispatchHist, queueHist, lifeHist>>
    /\ UNCHANGED notEventLoop

\* Emit whose send puts the event at the head of the buffer.
EmitSelectPrepend(t) ==
    /\ panicked = NoPanic
    /\ pc[t] = "emit_select"
    /\ \/ /\ closed
          /\ panicked' = PanicSendOnClosed
          /\ UNCHANGED <<events, sent, pc, arg, lastRet>>
       \/ /\ ~closed
          /\ Len(events) < bufferSize
          /\ events' = <<[id |-> sent + 1, type |-> arg[t]]>> \o events
          /\ sent' = sent + 1
          /\ pc' = [pc EXCEPT ![t] = "idle"]
          /\ arg' = [arg EXCEPT ![t] = "none"]
          /\ lastRet' = Ret("Emit", 131, "nil")
          /\ UNCHANGED panicked
       \/ /\ ctxDone
          /\ pc' = [pc EXCEPT ![t] = "idle"]
          /\ arg' = [arg EXCEPT ![t] = "none"]
          /\ lastRet' = Ret("Emit", 133, ErrContextCanceled)
          /\ UNCHANGED <<events, sent, panicked>>
       \/ /\ ~closed
          /\ ~ctxDone
          /\ Len(events) >= bufferSize
          /\ pc' = [pc EXCEPT ![t] = "idle"]
          /\ arg' = [arg EXCEPT ![t] = "none"]
          /\ lastRet' = Ret("Emit", 135, ErrEventQueueFull)
          /\ UNCHANGED <<events, sent, panicked>>
    /\ UNCHANGED <<running, ctxDone, closed, handlers, wg>>
    /\ UNCHANGED <<consumerVars, dispatchHist, recvLog, pendingAtCancel, lifeHist>>
    /\ UNCHANGED notEventLoop

\* Emit, lines 129-136: the select.  The send case is ready when the buffer
\* has room or the channel is closed (it then panics); the Done case is ready
\* when the context is cancelled; one ready case is chosen, default if none.
EmitSelect(t) ==
    /\ panicked = NoPanic
    /\ pc[t] = "emit_select"
    /\ \/ /\ closed
          /\ panicked' = PanicSendOnClosed
          /\ UNCHANGED <<events, sent, pc, arg, lastRet>>
       \/ /\ ~closed
          /\ Len(events) < bufferSize
          /\ events' = Append(events, [id |-> sent + 1, type |-> arg[t]])
          /\ sent' = sent + 1
          /\ pc' = [pc EXCEPT ![t] = "idle"]
          /\ arg' = [arg EXCEPT ![t] = "none"]
          /\ lastRet' = Ret("Emit", 131, "nil")
          /\ UNCHANGED panicked
       \/ /\ ctxDone
          /\ pc' = [pc EXCEPT ![t] = "idle"]
          /\ arg' = [arg EXCEPT ![t] = "none"]
          /\ lastRet' = Ret("Emit", 133, ErrContextCanceled)
          /\ UNCHANGED <<events, sent, panicked>>
       \/ /\ ~closed
          /\ ~ctxDone
          /\ Len(events) >= bufferSize
          /\ pc' = [pc EXCEPT ![t] = "idle"]
          /\ arg' = [arg EXCEPT ![t] = "none"]
          /\ lastRet' = Ret("Emit", 135, ErrEventQueueFull)
          /\ UNCHANGED <<events, sent, panicked>>
    /\ UNCHANGED <<running, ctxDone, closed, handlers, wg>>
    /\ UNCHANGED <<consumerVars, dispatchHist, recvLog, pendingAtCancel, lifeHist>>
    /\ UNCHANGED notEventLoop

\* ------------------------------------------------------------------- run
\* run, lines 143-160: one pass of the select.  A receive is ready when the
\* buffer holds an event or the channel is closed; on a closed channel the
\* buffered events are still delivered before the receive reports !ok.
RunSelect(c) ==
    /\ panicked = NoPanic
    /\ cpc[c] = "select"
    /\ \/ /\ events # <<>>
          /\ cur' = [cur EXCEPT ![c] = Head(events)]
          /\ events' = Tail(events)
          /\ recvLog' = Append(recvLog, Head(events).id)
          /\ cpc' = [cpc EXCEPT ![c] = "handleEvent"]
          /\ UNCHANGED <<wg, pc>>
       \/ /\ events = <<>>
          /\ closed
          /\ cpc' = [cpc EXCEPT ![c] = "exited"]
          /\ wg' = wg - 1
          /\ pc' = IF wg = 1 THEN WaitReleased(pc) ELSE pc
          /\ UNCHANGED <<events, recvLog, cur>>
       \/ /\ ctxDone
          /\ cpc' = [cpc EXCEPT ![c] = "exited"]
          /\ wg' = wg - 1
          /\ pc' = IF wg = 1 THEN WaitReleased(pc) ELSE pc
          /\ UNCHANGED <<events, recvLog, cur>>
    /\ UNCHANGED <<running, ctxDone, closed, handlers, panicked, arg, lastRet>>
    /\ UNCHANGED <<snap, idx, handled, dispatchHist, sent, pendingAtCancel>>
    /\ UNCHANGED lifeHist
    /\ UNCHANGED notEventLoop

\* handleEvent, lines 166-171: copy el.handlers under the read lock.
HandleEventSnapshot(c) ==
    /\ panicked = NoPanic
    /\ cpc[c] = "handleEvent"
    /\ snap' = [snap EXCEPT ![c] = handlers]
    /\ idx' = [idx EXCEPT ![c] = 1]
    /\ handled' = [handled EXCEPT ![c] = FALSE]
    /\ invoked' = [invoked EXCEPT ![c] = <<>>]
    /\ cpc' = [cpc EXCEPT ![c] = "range"]
    /\ UNCHANGED <<loopVars, callerVars, cur, finished, queueHist, lifeHist>>
    /\ UNCHANGED notEventLoop

\* handleEvent that ranges over el.handlers itself instead of its copy.
HandlerLoopLiveList(c) ==
    /\ panicked = NoPanic
    /\ cpc[c] = "range"
    /\ idx[c] <= Len(handlers)
    /\ IF CanHandle(handlers[idx[c]], cur[c].type)
       THEN /\ cpc' = [cpc EXCEPT ![c] = "in_handler"]
            /\ invoked' = [invoked EXCEPT ![c] = Append(@, idx[c])]
            /\ UNCHANGED idx
       ELSE /\ idx' = [idx EXCEPT ![c] = @ + 1]
            /\ UNCHANGED <<cpc, invoked>>
    /\ UNCHANGED <<loopVars, callerVars, cur, snap, handled>>
    /\ UNCHANGED <<finished, queueHist, lifeHist>>
    /\ UNCHANGED notEventLoop

\* handleEvent, lines 172-173: the range loop tests CanHandle and calls Handle.
HandlerLoop(c) ==
    /\ panicked = NoPanic
    /\ cpc[c] = "range"
    /\ idx[c] <= Len(snap[c])
    /\ IF CanHandle(snap[c][idx[c]], cur[c].type)
       THEN /\ cpc' = [cpc EXCEPT ![c] = "in_handler"]
            /\ invoked' = [invoked EXCEPT ![c] = Append(@, idx[c])]
            /\ UNCHANGED idx
       ELSE /\ idx' = [idx EXCEPT ![c] = @ + 1]
            /\ UNCHANGED <<cpc, invoked>>
    /\ UNCHANGED <<loopVars, callerVars, cur, snap, handled>>
    /\ UNCHANGED <<finished, queueHist, lifeHist>>
    /\ UNCHANGED notEventLoop

\* handleEvent that leaves the range loop at the first handler error.
HandleReturnBreakOnError(c, err) ==
    /\ panicked = NoPanic
    /\ cpc[c] = "in_handler"
    /\ err => MayFail(snap[c][idx[c]])
    /\ handled' = [handled EXCEPT ![c] = IF err THEN @ ELSE TRUE]
    /\ idx' = [idx EXCEPT ![c] = IF err THEN Len(snap[c]) + 1 ELSE @ + 1]
    /\ cpc' = [cpc EXCEPT ![c] = "range"]
    /\ UNCHANGED <<loopVars, callerVars, cur, snap>>
    /\ UNCHANGED <<invoked, finished, queueHist, lifeHist>>
    /\ UNCHANGED notEventLoop

\* handleEvent, lines 174-180: Handle returns; an error is logged and the loop
\* continues with the next handler, success sets handled.
HandleReturn(c, err) ==
    /\ panicked = NoPanic
    /\ cpc[c] = "in_handler"
    /\ err => MayFail(snap[c][idx[c]])
    /\ handled' = [handled EXCEPT ![c] = IF err THEN @ ELSE TRUE]
    /\ idx' = [idx EXCEPT ![c] = @ + 1]
    /\ cpc' = [cpc EXCEPT ![c] = "range"]
    /\ UNCHANGED <<loopVars, callerVars, cur, snap>>
    /\ UNCHANGED <<invoked, finished, queueHist, lifeHist>>
    /\ UNCHANGED notEventLoop

\* handleEvent, lines 184-187: after the range loop the warning 'No handler
\* found for event' is logged when the local flag is still false.
WarnNoHandler(c) == ~handled[c]

\* run without its for loop: the consumer returns after its first event.
HandleEventReturnNoLoop(c) ==
    /\ panicked = NoPanic
    /\ cpc[c] = "range"
    /\ idx[c] > Len(snap[c])
    /\ finished' = finished \cup {cur[c].id}
    /\ cpc' = [cpc EXCEPT ![c] = "exited"]
    /\ wg' = wg - 1
    /\ pc' = IF wg = 1 THEN WaitReleased(pc) ELSE pc
    /\ cur' = [cur EXCEPT ![c] = NoEvent]
    /\ snap' = [snap EXCEPT ![c] = <<>>]
    /\ idx' = [idx EXCEPT ![c] = 0]
    /\ handled' = [handled EXCEPT ![c] = FALSE]
    /\ invoked' = [invoked EXCEPT ![c] = <<>>]
    /\ UNCHANGED <<running, ctxDone, closed, events, handlers, panicked>>
    /\ UNCHANGED <<arg, lastRet, queueHist, lifeHist>>
    /\ UNCHANGED notEventLoop

\* handleEvent, lines 184-189, and run, lines 152-155: after the range loop
\* the unhandled event is logged, handleEvent returns nil and run loops.
HandleEventReturn(c) ==
    /\ panicked = NoPanic
    /\ cpc[c] = "range"
    /\ idx[c] > Len(snap[c])
    /\ finished' = finished \cup {cur[c].id}
    /\ cpc' = [cpc EXCEPT ![c] = "select"]
    /\ cur' = [cur EXCEPT ![c] = NoEvent]
    /\ snap' = [snap EXCEPT ![c] = <<>>]
    /\ idx' = [idx EXCEPT ![c] = 0]
    /\ handled' = [handled EXCEPT ![c] = FALSE]
    /\ invoked' = [invoked EXCEPT ![c] = <<>>]
    /\ UNCHANGED <<loopVars, callerVars, queueHist, lifeHist>>
    /\ UNCHANGED notEventLoop

\* ------------------------------------------ MessageRouter.RegisterHandler
\* The message types a Route or GetHandlers call is made for.
RoutedTypes ==
    {MessageTypeUserInput, MessageTypeToolResponse, MessageTypeMemoryStore}

\* append(r.handlers[msgType], handler), line 65: in place while the backing
\* array has room, otherwise into a new array that holds a copy.
AppendHandler(l, h) ==
    IF l.len < Len(l.arr)
    THEN [exists |-> TRUE, arr |-> [l.arr EXCEPT ![l.len + 1] = h],
          len |-> l.len + 1]
    ELSE [exists |-> TRUE,
          arr |-> [j \in 1..GrowCap(Len(l.arr)) |->
                      IF j <= l.len THEN l.arr[j]
                      ELSE IF j = l.len + 1 THEN h ELSE NoHandler],
          len |-> l.len + 1]

\* A slice read from the map entry of type ty before append moved the entry
\* to a new array keeps the old array, which nothing writes any more.
KeepOldArray(v, ty, l) ==
    IF v.shared /\ v.ty = ty /\ l.len >= Len(l.arr)
    THEN [v EXCEPT !.shared = FALSE, !.own = l.arr]
    ELSE v

\* The insertion loop's test with a non-strict comparison.
NeedsSwapOrEqual(arr, i) ==
    i > 1 /\ Priority(arr[i].kind) <= Priority(arr[i - 1].kind)

\* Lines 68-69: i > 0 and handlers[i].Priority() < handlers[i-1].Priority()
\* (positions count from 1 here).
NeedsSwap(arr, i) ==
    i > 1 /\ Priority(arr[i].kind) < Priority(arr[i - 1].kind)

\* Lines 54-55: r.mu.Lock().  The call passes a handler of type k.
RouterRegisterLock(k) ==
    /\ reg.pc = "idle"
    /\ routerMu = "free"
    /\ Len(registered) < MaxRegistrations
    /\ routerMu' = "write"
    /\ registered' = Append(registered, k)
    /\ reg' = [pc |-> "visit", h |-> HandlerValue(k, Len(registered) + 1),
               ti |-> 1, i |-> 0]
    /\ UNCHANGED <<routerHandlers, route, got>>
    /\ UNCHANGED notRouter

\* Lines 57-67: the next of the five message types; if the handler accepts
\* it, the handler is appended to the list of that type.
RouterRegisterVisit ==
    /\ reg.pc = "visit"
    /\ reg.ti <= Len(BuiltinTypes)
    /\ LET ty == BuiltinTypes[reg.ti]
           l == routerHandlers[ty]
       IN  IF MsgCanHandle(reg.h.kind, ty)
           THEN /\ routerHandlers' =
                       [routerHandlers EXCEPT ![ty] = AppendHandler(l, reg.h)]
                /\ route' = KeepOldArray(route, ty, l)
                /\ got' = KeepOldArray(got, ty, l)
                /\ reg' = [reg EXCEPT !.pc = "sort", !.i = l.len + 1]
           ELSE /\ reg' = [reg EXCEPT !.ti = @ + 1]
                /\ UNCHANGED <<routerHandlers, route, got>>
    /\ UNCHANGED <<routerMu, registered>>
    /\ UNCHANGED notRouter

\* Line 70, first store of the swap: handlers[i] = handlers[i-1].
RouterSwapFirst ==
    /\ reg.pc = "sort"
    /\ LET ty == BuiltinTypes[reg.ti]
           l == routerHandlers[ty]
       IN  /\ NeedsSwap(l.arr, reg.i)
           /\ routerHandlers' =
                  [routerHandlers EXCEPT
                      ![ty].arr = [l.arr EXCEPT ![reg.i] = l.arr[reg.i - 1]]]
    /\ reg' = [reg EXCEPT !.pc = "swap"]
    /\ UNCHANGED <<routerMu, registered, route, got>>
    /\ UNCHANGED notRouter

\* Line 70, second store of the swap: handlers[i-1] = the new handler; i--.
RouterSwapSecond ==
    /\ reg.pc = "swap"
    /\ LET ty == BuiltinTypes[reg.ti]
           l == routerHandlers[ty]
       IN  routerHandlers' =
               [routerHandlers EXCEPT
                   ![ty].arr = [l.arr EXCEPT ![reg.i - 1] = reg.h]]
    /\ reg' = [reg EXCEPT !.pc = "sort", !.i = @ - 1]
    /\ UNCHANGED <<routerMu, registered, route, got>>
    /\ UNCHANGED notRouter

\* Lines 68-74: the insertion loop ends (i = 0 or break).
RouterSortDone ==
    /\ reg.pc = "sort"
    /\ ~NeedsSwap(routerHandlers[BuiltinTypes[reg.ti]].arr, reg.i)
    /\ reg' = [reg EXCEPT !.pc = "visit", !.ti = @ + 1, !.i = 0]
    /\ UNCHANGED <<routerMu, routerHandlers, registered, route, got>>
    /\ UNCHANGED notRouter

\* Line 77: the deferred r.mu.Unlock() after the last message type.
RouterRegisterUnlock ==
    /\ reg.pc = "visit"
    /\ reg.ti > Len(BuiltinTypes)
    /\ routerMu' = "free"
    /\ reg' = RegIdle
    /\ UNCHANGED <<routerHandlers, registered, route, got>>
    /\ UNCHANGED notRouter

\* ---------------------------------------------------- MessageRouter.Route
\* Element k of a slice: of the router's array while the slice still refers
\* to it, of the slice's own array otherwise.
ElementOf(v, k) ==
    IF v.shared THEN routerHandlers[v.ty].arr[k] ELSE v.own[k]

\* The client goroutine is between calls.
ClientIdle == route.pc \in {"idle", "returned"}

\* A Route call that has read the slice l of type ty and enters its loop.
RouteLoop(ty, l) ==
    [pc |-> "range", ty |-> ty, shared |-> TRUE, own |-> <<>>, len |-> l.len,
     k |-> 1, h |-> NoHandler, firstErr |-> NilError, list |-> ListOf(l),
     log |-> <<>>, failed |-> <<>>, ret |-> NotReturned]

\* Route that treats a missing map entry as an empty list.
RouteReadNoExistsTest(ty) ==
    /\ ClientIdle
    /\ routerMu = "free"
    /\ route' = RouteLoop(ty, routerHandlers[ty])
    /\ got' = NoSlice
    /\ UNCHANGED <<routerMu, routerHandlers, reg, registered>>
    /\ UNCHANGED notRouter

\* Lines 81-87: under the read lock Route reads the slice of the message's
\* type; without an entry it returns the error.  The slice is the map's own:
\* it shares the backing array with the router.
RouteRead(ty) ==
    /\ ClientIdle
    /\ routerMu = "free"
    /\ LET l == routerHandlers[ty]
       IN  route' = IF ~l.exists
                    THEN [RouteIdle EXCEPT !.pc = "returned", !.ty = ty,
                                           !.ret = ErrNoHandlers(ty)]
                    ELSE RouteLoop(ty, l)
    /\ got' = NoSlice
    /\ UNCHANGED <<routerMu, routerHandlers, reg, registered>>
    /\ UNCHANGED notRouter

\* Lines 90-91: the range loop reads the next element of the slice, with no
\* lock held, and calls its Handle.
RouteCall ==
    /\ route.pc = "range"
    /\ route.k <= route.len
    /\ LET h == ElementOf(route, route.k)
       IN  route' = [route EXCEPT !.pc = "in_handler", !.h = h,
                                  !.log = Append(@, h)]
    /\ UNCHANGED <<routerMu, routerHandlers, reg, registered, got>>
    /\ UNCHANGED notRouter

\* Lines 91-96: Handle returns; the first error is kept, the loop goes on.
RouteHandlerReturn(err) ==
    /\ route.pc = "in_handler"
    /\ err => MsgMayFail(route.h.kind, route.ty)
    /\ route' = [route EXCEPT
                    !.pc = "range",
                    !.k = @ + 1,
                    !.failed = IF err THEN Append(@, route.h) ELSE @,
                    !.firstErr = IF err /\ @ = NilError
                                 THEN HandlerError(route.h) ELSE @]
    /\ UNCHANGED <<routerMu, routerHandlers, reg, registered, got>>
    /\ UNCHANGED notRouter

\* Line 99: return firstErr.  The record keeps what the call saw and did.
RouteReturn ==
    /\ route.pc = "range"
    /\ route.k > route.len
    /\ route' = [route EXCEPT !.pc = "returned", !.ret = route.firstErr,
                              !.shared = FALSE, !.own = <<>>, !.h = NoHandler]
    /\ UNCHANGED <<routerMu, routerHandlers, reg, registered, got>>
    /\ UNCHANGED notRouter

\* ---------------------------------------------- MessageRouter.GetHandlers
\* GetHandlers that returns the router's slice itself.
GetHandlersNoCopy(ty) ==
    /\ ClientIdle
    /\ routerMu = "free"
    /\ LET l == routerHandlers[ty]
       IN  got' = IF ~l.exists
                  THEN [NoSlice EXCEPT !.ty = ty]
                  ELSE [ty |-> ty, shared |-> TRUE, own |-> <<>>,
                        len |-> l.len, writes |-> 0]
    /\ route' = RouteIdle
    /\ UNCHANGED <<routerMu, routerHandlers, reg, registered>>
    /\ UNCHANGED notRouter

\* Lines 103-116: under the read lock, nil without an entry, otherwise a new
\* array of len(handlers) elements that holds a copy.
GetHandlers(ty) ==
    /\ ClientIdle
    /\ routerMu = "free"
    /\ LET l == routerHandlers[ty]
       IN  got' = IF ~l.exists
                  THEN [NoSlice EXCEPT !.ty = ty]
                  ELSE [ty |-> ty, shared |-> FALSE, own |-> ListOf(l),
                        len |-> l.len, writes |-> 0]
    /\ route' = RouteIdle
    /\ UNCHANGED <<routerMu, routerHandlers, reg, registered>>
    /\ UNCHANGED notRouter

\* The caller of GetHandlers stores v in element i of the slice it was given:
\* the store goes to the array the slice refers to.
GotWrite(i, v) ==
    /\ got.writes < MaxWrites
    /\ i \in 1..got.len
    /\ v # ElementOf(got, i)
    /\ IF got.shared
       THEN /\ routerHandlers' =
                   [routerHandlers EXCEPT ![got.ty].arr[i] = v]
            /\ got' = [got EXCEPT !.writes = @ + 1]
       ELSE /\ got' = [got EXCEPT !.own[i] = v, !.writes = @ + 1]
            /\ UNCHANGED routerHandlers
    /\ UNCHANGED <<routerMu, reg, registered, route>>
    /\ UNCHANGED notRouter

\* The caller of GetHandlers drops the last element of the slice it was
\* given (result = result[:len(result)-1]).
GotTruncate ==
    /\ got.writes < MaxWrites
    /\ got.len > 0
    /\ got' = [got EXCEPT !.len = @ - 1, !.writes = @ + 1]
    /\ UNCHANGED <<routerMu, routerHandlers, reg, registered, route>>
    /\ UNCHANGED notRouter

\* The values a caller may store: nil or an element the slice already holds.
StoredValues == {NoHandler} \cup {ElementOf(got, j) : j \in 1..got.len}

RouterNext ==
    \/ \E k \in MessageHandlerKinds : RouterRegisterLock(k)
    \/ RouterRegisterVisit
    \/ RouterSwapFirst
    \/ RouterSwapSecond
    \/ RouterSortDone
    \/ RouterRegisterUnlock
    \/ \E ty \in RoutedTypes : RouteRead(ty)
    \/ RouteCall
    \/ \E err \in BOOLEAN : RouteHandlerReturn(err)
    \/ RouteReturn
    \/ \E ty \in RoutedTypes : GetHandlers(ty)
    \/ \E i \in 1..MaxRegistrations, v \in StoredValues : GotWrite(i, v)
    \/ GotTruncate

\* Every interleaving of one goroutine that registers handlers with one
\* client goroutine that routes messages, calls GetHandlers and writes to the
\* slice GetHandlers gave it.
RouterSpec == Init /\ [][RouterNext]_vars

\* The same calls made one after the other: no RegisterHandler call begins
\* or proceeds while the client is inside Route, and the client makes no call
\* while a RegisterHandler call is in progress.
RouterSeqNext ==
    \/ /\ ClientIdle
       /\ \/ \E k \in MessageHandlerKinds : RouterRegisterLock(k)
          \/ RouterRegisterVisit
          \/ RouterSwapFirst
          \/ RouterSwapSecond
          \/ RouterSortDone
          \/ RouterRegisterUnlock
    \/ /\ reg.pc = "idle"
       /\ \/ \E ty \in RoutedTypes : RouteRead(ty)
          \/ RouteCall
          \/ \E err \in BOOLEAN : RouteHandlerReturn(err)
          \/ RouteReturn
          \/ \E ty \in RoutedTypes : GetHandlers(ty)
          \/ \E i \in 1..MaxRegistrations, v \in StoredValues : GotWrite(i, v)
          \/ GotTruncate

RouterSeqSpec == Init /\ [][RouterSeqNext]_vars

\* ------------------------------------------------------- tool registry
\* A caller may call the registry when it is in no call of its own, or from
\* inside the tool handler its ExecuteTool call is running.
MayCall(t) == exec[t].pc \in {"idle", "in_handler"}

\* RegisterTool without the test for an existing tool.
RegisterToolOverwrite(t, name) ==
    /\ MayCall(t)
    /\ toolReaders = {}
    /\ Len(toolLog) < MaxToolRegs
    /\ tools' = [tools EXCEPT ![name] = ToolValue(name, Len(toolLog) + 1)]
    /\ toolRet' = [toolRet EXCEPT ![t] = RegisterResult(name, "nil")]
    /\ toolLog' = Append(toolLog, [name |-> name, ok |-> TRUE])
    /\ UNCHANGED <<toolCalls, exec, handlerRuns, toolReaders>>
    /\ UNCHANGED notTools

\* RegisterTool, tool_manager.go lines 53-64 (tools.go 50-60): one critical
\* section of the write lock, entered when no reader holds the lock, that
\* tests the name and stores the tool.
RegisterTool(t, name) ==
    /\ MayCall(t)
    /\ toolReaders = {}
    /\ Len(toolLog) < MaxToolRegs
    /\ IF tools[name] # NoTool
       THEN /\ toolRet' = [toolRet EXCEPT
                   ![t] = RegisterResult(name, ErrAlreadyRegistered(name))]
            /\ toolLog' = Append(toolLog, [name |-> name, ok |-> FALSE])
            /\ UNCHANGED tools
       ELSE /\ tools' = [tools EXCEPT
                   ![name] = ToolValue(name, Len(toolLog) + 1)]
            /\ toolRet' = [toolRet EXCEPT ![t] = RegisterResult(name, "nil")]
            /\ toolLog' = Append(toolLog, [name |-> name, ok |-> TRUE])
    /\ UNCHANGED <<toolCalls, exec, handlerRuns, toolReaders>>
    /\ UNCHANGED notTools

\* GetTool, lines 67-73: one critical section of the read lock.
GetTool(t, name) ==
    /\ MayCall(t)
    /\ toolRet' = [toolRet EXCEPT ![t] = GetToolResult(name, tools[name])]
    /\ UNCHANGED <<tools, toolLog, toolCalls, exec, handlerRuns, toolReaders>>
    /\ UNCHANGED notTools

\* ListTools, lines 76-85: one critical section of the read lock.
ListTools(t) ==
    /\ MayCall(t)
    /\ toolRet' = [toolRet EXCEPT ![t] =
           ListToolsResult({tools[n] : n \in ToolNames} \ {NoTool})]
    /\ UNCHANGED <<tools, toolLog, toolCalls, exec, handlerRuns, toolReaders>>
    /\ UNCHANGED notTools

\* ExecuteTool, line 89 with 68: the call enters GetTool, which takes the read
\* lock.
ExecuteGetTool(t, id, name) ==
    /\ exec[t].pc = "idle"
    /\ toolCalls < MaxToolCalls
    /\ toolCalls' = toolCalls + 1
    /\ exec' = [exec EXCEPT ![t] = [pc |-> "get_tool", id |-> id,
                                    name |-> name, tool |-> NoTool, regs |-> 0]]
    /\ toolReaders' = toolReaders \cup {t}
    /\ UNCHANGED <<tools, toolLog, toolRet, handlerRuns>>
    /\ UNCHANGED notTools

\* ExecuteTool that calls the handler of whatever the map lookup gave.
ExecuteLookupNoExistsTest(t, id, name) ==
    /\ exec[t].pc = "get_tool"
    /\ exec[t].id = id
    /\ exec[t].name = name
    /\ toolReaders' = toolReaders \ {t}
    /\ exec' = [exec EXCEPT ![t] = [pc |-> "in_handler", id |-> id,
                                    name |-> name, tool |-> tools[name],
                                    regs |-> Len(toolLog)]]
    /\ handlerRuns' = Append(handlerRuns, [tool |-> tools[name], id |-> id])
    /\ UNCHANGED <<tools, toolLog, toolRet, toolCalls>>
    /\ UNCHANGED notTools

\* ExecuteTool that defers the release of the read lock to its own return, so
\* that the handler is called with the lock held.
ExecuteLookupHoldingLock(t, id, name) ==
    /\ exec[t].pc = "get_tool"
    /\ exec[t].id = id
    /\ exec[t].name = name
    /\ IF tools[name] = NoTool
       THEN /\ toolRet' = [toolRet EXCEPT
                   ![t] = ToolResult(id, name, "nil", ToolNotFound(name))]
            /\ exec' = [exec EXCEPT ![t] = ExecIdle]
            /\ toolReaders' = toolReaders \ {t}
            /\ UNCHANGED handlerRuns
       ELSE /\ exec' = [exec EXCEPT ![t] = [pc |-> "in_handler", id |-> id,
                                           name |-> name, tool |-> tools[name],
                                           regs |-> Len(toolLog)]]
            /\ handlerRuns' =
                   Append(handlerRuns, [tool |-> tools[name], id |-> id])
            /\ UNCHANGED <<toolRet, toolReaders>>
    /\ UNCHANGED <<tools, toolLog, toolCalls>>
    /\ UNCHANGED notTools

\* ExecuteTool, lines 89-98 with 69-73: GetTool reads the map and its deferred
\* RUnlock releases the read lock as it returns; without the tool the
\* not-found result is returned, otherwise the handler is called with no lock
\* held.
ExecuteLookup(t, id, name) ==
    /\ exec[t].pc = "get_tool"
    /\ exec[t].id = id
    /\ exec[t].name = name
    /\ toolReaders' = toolReaders \ {t}
    /\ IF tools[name] = NoTool
       THEN /\ toolRet' = [toolRet EXCEPT
                   ![t] = ToolResult(id, name, "nil", ToolNotFound(name))]
            /\ exec' = [exec EXCEPT ![t] = ExecIdle]
            /\ UNCHANGED handlerRuns
       ELSE /\ exec' = [exec EXCEPT ![t] = [pc |-> "in_handler", id |-> id,
                                           name |-> name, tool |-> tools[name],
                                           regs |-> Len(toolLog)]]
            /\ handlerRuns' =
                   Append(handlerRuns, [tool |-> tools[name], id |-> id])
            /\ UNCHANGED toolRet
    /\ UNCHANGED <<tools, toolLog, toolCalls>>
    /\ UNCHANGED notTools

\* ExecuteTool, lines 98-111: the handler returns outcome o; an error gives a
\* result whose Error is err.Error(), a value one whose Result is the value.
ExecuteReturn(t, o) ==
    /\ exec[t].pc = "in_handler"
    /\ toolRet' = [toolRet EXCEPT ![t] =
           IF o.err
           THEN ToolResult(exec[t].id, exec[t].name, "nil", o.text)
           ELSE ToolResult(exec[t].id, exec[t].name, o.text, "")]
    /\ exec' = [exec EXCEPT ![t] = ExecIdle]
    /\ UNCHANGED <<tools, toolLog, toolCalls, handlerRuns, toolReaders>>
    /\ UNCHANGED notTools

ToolNext ==
    \/ \E t \in Callers, name \in ToolNames : RegisterTool(t, name)
    \/ \E t \in Callers, name \in ToolNames : GetTool(t, name)
    \/ \E t \in Callers : ListTools(t)
    \/ \E t \in Callers, id \in CallIds, name \in ToolNames :
           ExecuteGetTool(t, id, name)
    \/ \E t \in Callers, id \in CallIds, name \in ToolNames :
           ExecuteLookup(t, id, name)
    \/ \E t \in Callers, o \in HandlerOutcomes : ExecuteReturn(t, o)

\* Every interleaving of the callers' RegisterTool and ExecuteTool calls.
ToolSpec == Init /\ [][ToolNext]_vars

\* ------------------------------------------------------- memory manager
\* mm.mutex is a sync.RWMutex.  Lock first takes the mutex's inner writer
\* lock, then announces itself to the readers and waits until the readers
\* that hold the mutex have left.  A writer has announced itself when it holds
\* the mutex or waits only for readers ("pending"); a Lock call that waits
\* behind another writer ("queued") has not, and neither has a caller that
\* has released the read lock and has not called Lock yet.
AnnouncedWriter ==
    \/ memMu.writer # NoOne
    \/ \E u \in Callers : mem[u].pc = "pending"
\* Lock returns at once when no writer has announced itself and no reader
\* holds the mutex; RLock waits only while a writer has announced itself.
CanLock == memMu.readers = {} /\ ~AnnouncedWriter
CanRLock == ~AnnouncedWriter
MayBegin(t) == mem[t].pc = "idle" /\ memCalls < MaxMemCalls

\* The expiry test of lines 103, 153, 270 and 291: a TTL is attached and more
\* than the TTL has passed since the timestamp.
ExpiredAtTTL(e, t) == e.ttl # NoTTL /\ t - e.ts >= e.ttl
Expired(e, t) == e.ttl # NoTTL /\ t - e.ts > e.ttl

\* The keys a map holds, and the orders in which a range loop may visit them.
Resident(st) == {k \in DOMAIN st : st[k] # NoEntry}
Orders(S) ==
    {o \in [1..Cardinality(S) -> S] :
        \A i, j \in 1..Cardinality(S) : i # j => o[i] # o[j]}

AllOrders == UNION {Orders(S) : S \in SUBSET Keys}
\* Without an eviction the order plays no part: one order stands for all.
LeastOrder(S) == CHOOSE o \in Orders(S) : TRUE

\* evictOldestShortTerm, lines 178-197: the loop keeps the first entry whose
\* timestamp is before the oldest time found so far, starting from the
\* current time and the key ""; a key that differs from "" is deleted.
RECURSIVE EvictScan(_, _, _, _, _)
EvictScan(st, order, i, oldestKey, oldestTime) ==
    IF i > Len(order)
    THEN oldestKey
    ELSE IF st[order[i]].ts < oldestTime
         THEN EvictScan(st, order, i + 1, order[i], st[order[i]].ts)
         ELSE EvictScan(st, order, i + 1, oldestKey, oldestTime)
evictOldestShortTerm(st, order, t) ==
    LET oldestKey == EvictScan(st, order, 1, "", t)
    IN  IF oldestKey # "" THEN [st EXCEPT ![oldestKey] = NoEntry] ELSE st

\* The clock advances.
Tick ==
    /\ now < MaxTime
    /\ now' = now + 1
    /\ UNCHANGED <<shortTerm, sweep, longVars, memCallVars>>
    /\ UNCHANGED notMemory

\* SetShortTermMemory, lines 68-69: the call takes the write lock.
SetShortLock(t, k, v, ttl) ==
    /\ MayBegin(t)
    /\ CanLock
    /\ memCalls' = memCalls + 1
    /\ memMu' = [memMu EXCEPT !.writer = t]
    /\ mem' = [mem EXCEPT
           ![t] = MemCall("set", "SetShortTermMemory", k, v, ttl)]
    /\ UNCHANGED <<shortVars, longVars, memRet>>
    /\ UNCHANGED notMemory

\* What lines 71-86 make of the map: the entry is stamped with the clock, a
\* TTL is attached when ttl > 0, and when the map then holds more entries than
\* ShortTermCapacity evictOldestShortTerm runs, at a clock value later.
SetShortResult(st, k, v, ttl, stamp, later, order) ==
    LET stored == [st EXCEPT ![k] =
                      MemoryEntry(v, stamp, IF ttl > 0 THEN ttl ELSE NoTTL)]
    IN  IF Cardinality(Resident(stored)) > ShortTermCapacity
        THEN evictOldestShortTerm(stored, order, later)
        ELSE stored
Overflows(st, k) ==
    Cardinality(Resident(st) \cup {k}) > ShortTermCapacity

\* SetShortTermMemory, lines 71-88: store, evict, release the lock (deferred
\* Unlock) and return nil.  dt is the time that passes between the two clock
\* reads, order the order in which the eviction loop visits the map.
SetShortStore(t, dt, order) ==
    /\ mem[t].pc = "set"
    /\ now + dt <= MaxTime
    /\ dt > 0 => Overflows(shortTerm, mem[t].key)
    /\ order \in Orders(Resident(shortTerm) \cup {mem[t].key})
    /\ ~Overflows(shortTerm, mem[t].key)
           => order = LeastOrder(Resident(shortTerm) \cup {mem[t].key})
    /\ shortTerm' = SetShortResult(shortTerm, mem[t].key, mem[t].value,
                                   mem[t].ttl, now, now + dt, order)
    /\ now' = now + dt
    /\ memMu' = [memMu EXCEPT !.writer = NoOne]
    /\ memRet' = MemReturn("SetShortTermMemory", t, mem[t].key, NilValue,
                           FALSE, "nil")
    /\ mem' = [mem EXCEPT ![t] = MemIdle]
    /\ UNCHANGED <<sweep, longVars, memCalls>>
    /\ UNCHANGED notMemory

\* GetShortTermMemory, lines 93-94: the call takes the read lock.
GetShortLock(t, k) ==
    /\ MayBegin(t)
    /\ CanRLock
    /\ memCalls' = memCalls + 1
    /\ memMu' = [memMu EXCEPT !.readers = @ \cup {t}]
    /\ mem' = [mem EXCEPT
           ![t] = MemCall("read", "GetShortTermMemory", k, NilValue, NoTTL)]
    /\ UNCHANGED <<shortVars, longVars, memRet>>
    /\ UNCHANGED notMemory

\* GetShortTermMemory whose expiry path calls Lock while it holds the read
\* lock.
GetShortReadKeepRLock(t) ==
    /\ mem[t].pc = "read"
    /\ LET entry == shortTerm[mem[t].key]
       IN  IF entry = NoEntry
           THEN /\ memRet' = MemReturn("GetShortTermMemory", t, mem[t].key,
                                       NilValue, FALSE, "nil")
                /\ mem' = [mem EXCEPT ![t] = MemIdle]
                /\ memMu' = [memMu EXCEPT !.readers = @ \ {t}]
           ELSE IF Expired(entry, now)
           THEN /\ mem' = [mem EXCEPT ![t].pc = "upgrade", ![t].entry = entry]
                /\ UNCHANGED <<memMu, memRet>>
           ELSE /\ memRet' = MemReturn("GetShortTermMemory", t, mem[t].key,
                                       entry.value, TRUE, "nil")
                /\ mem' = [mem EXCEPT ![t] = MemIdle]
                /\ memMu' = [memMu EXCEPT !.readers = @ \ {t}]
    /\ UNCHANGED <<shortVars, longVars, memCalls>>
    /\ UNCHANGED notMemory

\* GetShortTermMemory that stamps the entry it returns with the clock.
GetShortReadSliding(t) ==
    /\ mem[t].pc = "read"
    /\ LET entry == shortTerm[mem[t].key]
       IN  IF entry = NoEntry
           THEN /\ memRet' = MemReturn("GetShortTermMemory", t, mem[t].key,
                                       NilValue, FALSE, "nil")
                /\ mem' = [mem EXCEPT ![t] = MemIdle]
                /\ UNCHANGED shortTerm
           ELSE /\ memRet' = MemReturn("GetShortTermMemory", t, mem[t].key,
                                       entry.value, TRUE, "nil")
                /\ mem' = [mem EXCEPT ![t] = MemIdle]
                /\ shortTerm' = [shortTerm EXCEPT ![mem[t].key].ts = now]
    /\ memMu' = [memMu EXCEPT !.readers = @ \ {t}]
    /\ UNCHANGED <<now, sweep, longVars, memCalls>>
    /\ UNCHANGED notMemory

\* GetShortTermMemory, lines 96-114 without the expiry path, and line 105: the
\* lookup; without an entry (nil, false, nil) is returned and with one whose
\* TTL has not elapsed (value, true, nil), the deferred RUnlock releasing the
\* read lock; for an expired entry the read lock is released and Lock called.
GetShortRead(t) ==
    /\ mem[t].pc = "read"
    /\ LET entry == shortTerm[mem[t].key]
       IN  IF entry = NoEntry
           THEN /\ memRet' = MemReturn("GetShortTermMemory", t, mem[t].key,
                                       NilValue, FALSE, "nil")
                /\ mem' = [mem EXCEPT ![t] = MemIdle]
           ELSE IF Expired(entry, now)
           THEN /\ mem' = [mem EXCEPT ![t].pc = "upgrade", ![t].entry = entry]
                /\ UNCHANGED memRet
           ELSE /\ memRet' = MemReturn("GetShortTermMemory", t, mem[t].key,
                                       entry.value, TRUE, "nil")
                /\ mem' = [mem EXCEPT ![t] = MemIdle]
    /\ memMu' = [memMu EXCEPT !.readers = @ \ {t}]
    /\ UNCHANGED <<shortVars, longVars, memCalls>>
    /\ UNCHANGED notMemory

\* Line 106: Lock is called.  Behind an announced writer the caller waits
\* for the inner writer lock; otherwise it takes it and announces itself,
\* and returns at once unless readers hold the mutex.
GetShortUpgrade(t) ==
    /\ mem[t].pc = "upgrade"
    /\ IF AnnouncedWriter
       THEN /\ mem' = [mem EXCEPT ![t].pc = "queued"]
            /\ UNCHANGED memMu
       ELSE IF memMu.readers = {}
       THEN /\ memMu' = [memMu EXCEPT !.writer = t]
            /\ mem' = [mem EXCEPT ![t].pc = "delete"]
       ELSE /\ mem' = [mem EXCEPT ![t].pc = "pending"]
            /\ UNCHANGED memMu
    /\ UNCHANGED <<shortVars, longVars, memRet, memCalls>>
    /\ UNCHANGED notMemory

\* Line 106: the Lock call that waited behind a writer gets the inner writer
\* lock once that writer has unlocked, and announces itself; readers that
\* took the mutex in between make it wait for them.
GetShortQueued(t) ==
    /\ mem[t].pc = "queued"
    /\ ~AnnouncedWriter
    /\ IF memMu.readers = {}
       THEN /\ memMu' = [memMu EXCEPT !.writer = t]
            /\ mem' = [mem EXCEPT ![t].pc = "delete"]
       ELSE /\ mem' = [mem EXCEPT ![t].pc = "pending"]
            /\ UNCHANGED memMu
    /\ UNCHANGED <<shortVars, longVars, memRet, memCalls>>
    /\ UNCHANGED notMemory

\* Line 106: the announced Lock returns once the readers have released the
\* mutex.
GetShortPending(t) ==
    /\ mem[t].pc = "pending"
    /\ memMu.readers = {}
    /\ memMu' = [memMu EXCEPT !.writer = t]
    /\ mem' = [mem EXCEPT ![t].pc = "delete"]
    /\ UNCHANGED <<shortVars, longVars, memRet, memCalls>>
    /\ UNCHANGED notMemory

\* Lines 107-108: delete(mm.shortTerm, key) and Unlock.
GetShortDelete(t) ==
    /\ mem[t].pc = "delete"
    /\ shortTerm' = [shortTerm EXCEPT ![mem[t].key] = NoEntry]
    /\ memMu' = [memMu EXCEPT !.writer = NoOne]
    /\ mem' = [mem EXCEPT ![t].pc = "relock"]
    /\ UNCHANGED <<now, sweep, longVars, memRet, memCalls>>
    /\ UNCHANGED notMemory

\* Line 109: the read lock is taken again.
GetShortRelock(t) ==
    /\ mem[t].pc = "relock"
    /\ CanRLock
    /\ memMu' = [memMu EXCEPT !.readers = @ \cup {t}]
    /\ mem' = [mem EXCEPT ![t].pc = "return"]
    /\ UNCHANGED <<shortVars, longVars, memRet, memCalls>>
    /\ UNCHANGED notMemory

\* Line 110: return nil, false, nil; the deferred RUnlock releases the lock.
GetShortReturn(t) ==
    /\ mem[t].pc = "return"
    /\ memRet' = MemReturn("GetShortTermMemory", t, mem[t].key, NilValue,
                           FALSE, "nil")
    /\ memMu' = [memMu EXCEPT !.readers = @ \ {t}]
    /\ mem' = [mem EXCEPT ![t] = MemIdle]
    /\ UNCHANGED <<shortVars, longVars, memCalls>>
    /\ UNCHANGED notMemory

\* GetAllShortTermMemory (148-150) and GetMemoryStats (333-335): the call
\* takes the read lock.
ReadOps == {"GetAllShortTermMemory", "GetMemoryStats"}
ReadLock(t, op) ==
    /\ MayBegin(t)
    /\ CanRLock
    /\ memCalls' = memCalls + 1
    /\ memMu' = [memMu EXCEPT !.readers = @ \cup {t}]
    /\ mem' = [mem EXCEPT
           ![t] = MemCall("scan", op, "none", NilValue, NoTTL)]
    /\ UNCHANGED <<shortVars, longVars, memRet>>
    /\ UNCHANGED notMemory

\* The range loops of GetAllShortTermMemory (152-158) and SearchMemory
\* (289-298) read the clock once for every entry they visit (time.Since, 153
\* and 291): at[k] is the clock value at the test of key k.  The loop visits
\* the keys in any order, so every assignment of values from the current one
\* on is the reading of some run of the loop.
ScanTimes ==
    {at \in [Keys -> now..MaxTime] :
        \A k \in Keys \ Resident(shortTerm) : at[k] = now}
\* The clock value at the last test of a loop.
LastRead(at) == CHOOSE m \in now..MaxTime :
    /\ \A k \in Keys : at[k] <= m
    /\ m = now \/ \E k \in Keys : at[k] = m

\* GetAllShortTermMemory, lines 151-161: the entries that are not expired
\* when the loop tests them.
GetAllShortTermMemory(t, at) ==
    /\ mem[t].pc = "scan"
    /\ mem[t].op = "GetAllShortTermMemory"
    /\ at \in ScanTimes
    /\ memRet' = [MemReturn("GetAllShortTermMemory", t, "none", NilValue,
                            FALSE, "nil")
                  EXCEPT !.entries =
                      {[key |-> k, entry |-> shortTerm[k]] :
                          k \in {j \in Resident(shortTerm) :
                                    ~Expired(shortTerm[j], at[j])}}]
    /\ now' = LastRead(at)
    /\ memMu' = [memMu EXCEPT !.readers = @ \ {t}]
    /\ mem' = [mem EXCEPT ![t] = MemIdle]
    /\ UNCHANGED <<shortTerm, sweep, longVars, memCalls>>
    /\ UNCHANGED notMemory

\* GetMemoryStats, lines 336-351: the sizes of the two maps and the number of
\* short-term entries that are not expired.
GetMemoryStats(t) ==
    /\ mem[t].pc = "scan"
    /\ mem[t].op = "GetMemoryStats"
    /\ memRet' = [MemReturn("GetMemoryStats", t, "none", NilValue, FALSE,
                            "nil")
                  EXCEPT !.stats =
                      [total |-> Cardinality(Resident(shortTerm)),
                       valid |-> Cardinality({k \in Resident(shortTerm) :
                                     ~Expired(shortTerm[k], now)}),
                       long |-> Cardinality(Resident(longTerm))]]
    /\ memMu' = [memMu EXCEPT !.readers = @ \ {t}]
    /\ mem' = [mem EXCEPT ![t] = MemIdle]
    /\ UNCHANGED <<shortVars, longVars, memCalls>>
    /\ UNCHANGED notMemory

\* SearchMemory, lines 283-284: the call takes the read lock.
SearchLock(t, query, includeLongTerm) ==
    /\ MayBegin(t)
    /\ CanRLock
    /\ memCalls' = memCalls + 1
    /\ memMu' = [memMu EXCEPT !.readers = @ \cup {t}]
    /\ mem' = [mem EXCEPT
           ![t] = [MemCall("scan", "SearchMemory", query, NilValue, NoTTL)
                   EXCEPT !.long = includeLongTerm]]
    /\ UNCHANGED <<shortVars, longVars, memRet>>
    /\ UNCHANGED notMemory

\* entryMatchesQuery, lines 317-330.
entryMatchesQuery(key, entry, query) ==
    \/ Contains(ToLower(key), query)
    \/ Contains(ToLower(Sprintf(entry.value)), query)
\* What SearchMemory collects, lines 289-306, each short-term entry tested
\* at the clock value of its turn.
Found(query, includeLongTerm, at) ==
    {[key |-> k, entry |-> shortTerm[k]] :
        k \in {j \in Resident(shortTerm) :
                  /\ ~Expired(shortTerm[j], at[j])
                  /\ entryMatchesQuery(j, shortTerm[j], query)}}
    \cup
    {[key |-> k, entry |-> longTerm[k]] :
        k \in {j \in Resident(longTerm) :
                  /\ includeLongTerm
                  /\ entryMatchesQuery(j, longTerm[j], query)}}
\* A sort that puts the oldest entry first.
SortedOldestFirst(res) ==
    \A i, j \in 1..Len(res) :
        i < j => ~(res[j].entry.ts < res[i].entry.ts)
\* sort.Slice with Timestamp.After as less, lines 309-311: no element is
\* followed by one that is after it.
SortedByTimestamp(res) ==
    \A i, j \in 1..Len(res) :
        i < j => ~(res[j].entry.ts > res[i].entry.ts)

\* SearchMemory, lines 286-313: the matching entries, most recent first.
SearchMemory(t, at) ==
    /\ mem[t].pc = "scan"
    /\ mem[t].op = "SearchMemory"
    /\ at \in ScanTimes
    /\ \E res \in Orders(Found(ToLower(mem[t].key), mem[t].long, at)) :
          /\ SortedByTimestamp(res)
          /\ memRet' = [MemReturn("SearchMemory", t, mem[t].key, NilValue,
                                  FALSE, "nil")
                        EXCEPT !.results = res]
    /\ now' = LastRead(at)
    /\ memMu' = [memMu EXCEPT !.readers = @ \ {t}]
    /\ mem' = [mem EXCEPT ![t] = MemIdle]
    /\ UNCHANGED <<shortTerm, sweep, longVars, memCalls>>
    /\ UNCHANGED notMemory

\* SetLongTermMemory, lines 119-120: the call takes the write lock.
SetLongLock(t, k, v) ==
    /\ MayBegin(t)
    /\ CanLock
    /\ memCalls' = memCalls + 1
    /\ memMu' = [memMu EXCEPT !.writer = t]
    /\ mem' = [mem EXCEPT
           ![t] = MemCall("set_long", "SetLongTermMemory", k, v, NoTTL)]
    /\ UNCHANGED <<shortVars, longVars, memRet>>
    /\ UNCHANGED notMemory

\* How the durable write can end: done; MkdirAll fails; WriteFile fails before
\* it opens the file, after it truncated it, after it wrote a part, or after
\* it wrote everything, when closing the file fails.
SaveOutcomes == {"ok", "mkdir", "open", "truncated", "partial", "close"}
\* json.MarshalIndent of the map, line 207: per key the JSON of the entry.
Snapshot(lt) ==
    [k \in LongKeys |->
        IF lt[k] = NoEntry THEN NoFileEntry
        ELSE [json |-> JsonMarshal(lt[k].value), ts |-> lt[k].ts]]
\* saveLongTermMemory, lines 200-218: the file and the error it leaves.
SavedFile(lt, old, outcome) ==
    IF outcome \in {"ok", "close"} THEN FileJson(Snapshot(lt))
    ELSE IF outcome = "truncated" THEN FileEmpty
    ELSE IF outcome = "partial" THEN FilePartial
    ELSE old
SaveError(outcome) ==
    IF outcome = "ok" THEN "nil"
    ELSE IF outcome = "mkdir" THEN ErrCreateDirectory
    ELSE ErrWriteFile

\* SetLongTermMemory that takes its entry out of the map again when the
\* durable write fails.
SetLongStoreRollback(t, outcome) ==
    /\ mem[t].pc = "set_long"
    /\ outcome \in SaveOutcomes
    /\ LET stored == [longTerm EXCEPT ![mem[t].key] =
                         MemoryEntry(mem[t].value, now, NoTTL)]
       IN  /\ longTerm' = IF outcome = "ok" THEN stored ELSE longTerm
           /\ file' = SavedFile(stored, file, outcome)
    /\ lastSave' = IF outcome = "ok" THEN "ok" ELSE "failed"
    /\ durable' = IF outcome = "ok" THEN durable \cup {mem[t].key} ELSE durable
    /\ memRet' = MemReturn("SetLongTermMemory", t, mem[t].key, NilValue,
                           FALSE, SaveError(outcome))
    /\ memMu' = [memMu EXCEPT !.writer = NoOne]
    /\ mem' = [mem EXCEPT ![t] = MemIdle]
    /\ UNCHANGED <<shortVars, restarts, loadErr, memCalls>>
    /\ UNCHANGED notMemory

\* SetLongTermMemory, lines 122-131: the entry is stored in the map, the map
\* is written to the file, and the error of the write is returned; the
\* deferred Unlock releases the lock.
SetLongStore(t, outcome) ==
    /\ mem[t].pc = "set_long"
    /\ outcome \in SaveOutcomes
    /\ longTerm' = [longTerm EXCEPT ![mem[t].key] =
                       MemoryEntry(mem[t].value, now, NoTTL)]
    /\ file' = SavedFile(longTerm', file, outcome)
    /\ lastSave' = IF outcome = "ok" THEN "ok" ELSE "failed"
    /\ durable' = IF outcome = "ok" THEN durable \cup {mem[t].key} ELSE durable
    /\ memRet' = MemReturn("SetLongTermMemory", t, mem[t].key, NilValue,
                           FALSE, SaveError(outcome))
    /\ memMu' = [memMu EXCEPT !.writer = NoOne]
    /\ mem' = [mem EXCEPT ![t] = MemIdle]
    /\ UNCHANGED <<shortVars, restarts, loadErr, memCalls>>
    /\ UNCHANGED notMemory

\* GetLongTermMemory, lines 136-137: the call takes the read lock.
GetLongLock(t, k) ==
    /\ MayBegin(t)
    /\ CanRLock
    /\ memCalls' = memCalls + 1
    /\ memMu' = [memMu EXCEPT !.readers = @ \cup {t}]
    /\ mem' = [mem EXCEPT
           ![t] = MemCall("read_long", "GetLongTermMemory", k, NilValue,
                          NoTTL)]
    /\ UNCHANGED <<shortVars, longVars, memRet>>
    /\ UNCHANGED notMemory

\* GetLongTermMemory, lines 139-144: the lookup, without an expiry test.
GetLongRead(t) ==
    /\ mem[t].pc = "read_long"
    /\ memRet' = IF longTerm[mem[t].key] = NoEntry
                 THEN MemReturn("GetLongTermMemory", t, mem[t].key, NilValue,
                                FALSE, "nil")
                 ELSE MemReturn("GetLongTermMemory", t, mem[t].key,
                                longTerm[mem[t].key].value, TRUE, "nil")
    /\ memMu' = [memMu EXCEPT !.readers = @ \ {t}]
    /\ mem' = [mem EXCEPT ![t] = MemIdle]
    /\ UNCHANGED <<shortVars, longVars, memCalls>>
    /\ UNCHANGED notMemory

\* loadLongTermMemory, lines 221-244: the map and the error the load of the
\* file gives; io tells whether os.ReadFile can read a file that exists.
LoadError(f, io) ==
    IF f.kind = "missing" THEN "nil"
    ELSE IF io # "ok" THEN ErrReadFile
    ELSE IF f.kind = "empty" THEN "nil"
    ELSE IF f.kind = "partial" THEN ErrUnmarshal
    ELSE "nil"
LoadedMap(f, io) ==
    IF f.kind = "json" /\ io = "ok"
    THEN [k \in LongKeys |->
             IF f.data[k] = NoFileEntry THEN NoEntry
             ELSE MemoryEntry(JsonUnmarshal(f.data[k].json), f.data[k].ts,
                              NoTTL)]
    ELSE [k \in LongKeys |-> NoEntry]

\* NewMemoryManager, lines 42-64, on the path of the file: the process starts
\* again and constructs a manager with empty maps that loads the file; an
\* error of the load is logged (lines 59-61) and the manager returned with a
\* nil error (line 63).
NewMemoryManager(io) ==
    /\ restarts < MaxRestarts
    /\ \A t \in Callers : mem[t].pc = "idle"
    /\ sweep # "locked"
    /\ restarts' = restarts + 1
    /\ shortTerm' = [k \in Keys |-> NoEntry]
    /\ longTerm' = LoadedMap(file, io)
    /\ loadErr' = LoadError(file, io)
    /\ lastSave' = "none"
    /\ sweep' = "off"
    /\ memRet' = MemReturn("NewMemoryManager", NoOne, "none", NilValue, FALSE,
                           "nil")
    /\ UNCHANGED <<now, file, memMu, mem, memCalls, durable>>
    /\ UNCHANGED notMemory

\* StartCleanup, lines 247-249: a client starts the cleanup goroutine.
StartCleanup ==
    /\ sweep = "off"
    /\ sweep' = "idle"
    /\ UNCHANGED <<now, shortTerm, longVars, memCallVars>>
    /\ UNCHANGED notMemory

\* StartCleanup, lines 251-255 with 263: the ticker fires and
\* cleanupExpiredEntries takes the write lock.
CleanupLock ==
    /\ sweep \in {"idle", "swept"}
    /\ CanLock
    /\ sweep' = "locked"
    /\ memMu' = [memMu EXCEPT !.writer = Sweeper]
    /\ UNCHANGED <<now, shortTerm, longVars, mem, memRet, memCalls>>
    /\ UNCHANGED notMemory

\* A pass that removes every entry written before the current time.
cleanupOlderEntries ==
    /\ sweep = "locked"
    /\ shortTerm' = [k \in Keys |->
                        IF shortTerm[k] # NoEntry /\ shortTerm[k].ts < now
                        THEN NoEntry
                        ELSE shortTerm[k]]
    /\ sweep' = IF shortTerm' # shortTerm THEN "swept" ELSE "idle"
    /\ memMu' = [memMu EXCEPT !.writer = NoOne]
    /\ UNCHANGED <<now, longVars, mem, memRet, memCalls>>
    /\ UNCHANGED notMemory

\* cleanupExpiredEntries, lines 264-278: every entry that is expired at the
\* current time is deleted, a pass that removed entries logs their number
\* (276-278), and the lock is released.
cleanupExpiredEntries ==
    /\ sweep = "locked"
    /\ shortTerm' = [k \in Keys |->
                        IF Expired(shortTerm[k], now) THEN NoEntry
                        ELSE shortTerm[k]]
    /\ sweep' = IF \E k \in Keys : Expired(shortTerm[k], now)
                THEN "swept" ELSE "idle"
    /\ memMu' = [memMu EXCEPT !.writer = NoOne]
    /\ UNCHANGED <<now, longVars, mem, memRet, memCalls>>
    /\ UNCHANGED notMemory

\* StartCleanup, lines 256-257: the context is done and the goroutine returns.
CleanupStop ==
    /\ sweep \in {"idle", "swept"}
    /\ sweep' = "stopped"
    /\ UNCHANGED <<now, shortTerm, longVars, memCallVars>>
    /\ UNCHANGED notMemory

\* The steps of a short-term call in progress.
ShortStep(t) ==
    \/ \E dt \in 0..1, order \in AllOrders : SetShortStore(t, dt, order)
    \/ GetShortRead(t)
    \/ GetShortUpgrade(t)
    \/ GetShortQueued(t)
    \/ GetShortPending(t)
    \/ GetShortDelete(t)
    \/ GetShortRelock(t)
    \/ GetShortReturn(t)
    \/ \E at \in ScanTimes : GetAllShortTermMemory(t, at)
    \/ GetMemoryStats(t)
    \/ \E at \in ScanTimes : SearchMemory(t, at)
ShortCallOn(t, ks, qs) ==
    \/ \E k \in ks, v \in ShortValues, ttl \in TtlArgs :
           SetShortLock(t, k, v, ttl)
    \/ \E k \in ks : GetShortLock(t, k)
    \/ \E op \in ReadOps : ReadLock(t, op)
    \/ \E query \in qs, includeLongTerm \in BOOLEAN :
           SearchLock(t, query, includeLongTerm)
ShortCall(t) == ShortCallOn(t, Keys, Queries)
CleanupStep == CleanupLock \/ cleanupExpiredEntries

\* The short-term store used by concurrent callers while the clock advances,
\* as the Agent uses it: NewAgent and Run never call StartCleanup.
AgentMemoryNext ==
    \/ Tick
    \/ \E t \in Callers : ShortCall(t)
    \/ \E t \in Callers : ShortStep(t)
AgentMemorySpec == Init /\ [][AgentMemoryNext]_vars
\* The calls in progress take their steps and the clock advances.
AgentMemoryFairSpec ==
    /\ Init
    /\ [][AgentMemoryNext]_vars
    /\ WF_vars(Tick)
    /\ \A t \in Callers : WF_vars(ShortStep(t))

\* The long-term store used by concurrent callers, with failing writes, and
\* the process starting again on the same file.
LongStep(t) ==
    \/ \E outcome \in SaveOutcomes : SetLongStore(t, outcome)
    \/ GetLongRead(t)
LongCallOn(t, ks) ==
    \/ \E k \in ks, v \in LongValues : SetLongLock(t, k, v)
    \/ \E k \in ks : GetLongLock(t, k)
LongCall(t) == LongCallOn(t, LongKeys)
LongNext ==
    \/ \E t \in Callers : LongCall(t)
    \/ \E t \in Callers : LongStep(t)
    \/ \E io \in {"ok", "fail"} : NewMemoryManager(io)
LongSpec == Init /\ [][LongNext]_vars

\* The same with a client that may start, and stop, the cleanup goroutine.
ShortNext ==
    \/ AgentMemoryNext
    \/ StartCleanup
    \/ CleanupStep
    \/ CleanupStop
ShortSpec == Init /\ [][ShortNext]_vars
\* Every operation of the manager, on one key of each tier: the callers'
\* calls on both tiers and the cleanup goroutine compete for the lock.
MemoryStep(t) == ShortStep(t) \/ LongStep(t)
MemoryNext ==
    \/ Tick
    \/ \E t \in Callers : ShortCallOn(t, {"test_key"}, {"TEST"})
    \/ \E t \in Callers : LongCallOn(t, {"long_test_key"})
    \/ \E t \in Callers : MemoryStep(t)
    \/ StartCleanup
    \/ CleanupStep
    \/ CleanupStop
MemorySpec == Init /\ [][MemoryNext]_vars

\* Both tiers written and searched by concurrent callers while the clock
\* advances: two short-term keys, one long-term key, every query.
SearchNext ==
    \/ Tick
    \/ \E t \in Callers : ShortCallOn(t, {"test_key", "user"}, Queries)
    \/ \E t \in Callers : LongCallOn(t, {"long_test_key"})
    \/ \E t \in Callers : MemoryStep(t)
SearchSpec == Init /\ [][SearchNext]_vars

\* A cleanup goroutine that was started at construction and is never stopped.
CleanupFairNext ==
    \/ AgentMemoryNext
    \/ StartCleanup
    \/ CleanupStep
CleanupFairSpec ==
    /\ Init
    /\ [][CleanupFairNext]_vars
    /\ WF_vars(Tick)
    /\ WF_vars(StartCleanup)
    /\ WF_vars(CleanupStep)
    /\ \A t \in Callers : WF_vars(ShortStep(t))


\* --------------------------------------------------------- specifications
CallerStep(t) ==
    \/ StartSpawn(t)
    \/ EmitSelect(t)

ConsumerStep(c) ==
    \/ RunSelect(c)
    \/ HandleEventSnapshot(c)
    \/ HandlerLoop(c)
    \/ \E err \in BOOLEAN : HandleReturn(c, err)
    \/ HandleEventReturn(c)

\* The steps of a loop on which Stop is never called.
NextRunning ==
    \/ \E t \in Callers, h \in HandlerKinds : RegisterHandler(t, h)
    \/ \E t \in Callers : StartLock(t)
    \/ \E t \in Callers : StartSpawn(t)
    \/ \E t \in Callers, ty \in EventTypes : EmitCheck(t, ty)
    \/ \E t \in Callers : EmitSelect(t)
    \/ \E c \in Consumers : RunSelect(c)
    \/ \E c \in Consumers : HandleEventSnapshot(c)
    \/ \E c \in Consumers : HandlerLoop(c)
    \/ \E c \in Consumers, err \in BOOLEAN : HandleReturn(c, err)
    \/ \E c \in Consumers : HandleEventReturn(c)

Next ==
    \/ \E t \in Callers, h \in HandlerKinds : RegisterHandler(t, h)
    \/ \E t \in Callers : StartLock(t)
    \/ \E t \in Callers : StartSpawn(t)
    \/ \E t \in Callers : StopLock(t)
    \/ \E t \in Callers : StopCancel(t)
    \/ \E t \in Callers : StopClose(t)
    \/ \E t \in Callers : StopWait(t)
    \/ \E t \in Callers : StopWake(t)
    \/ \E t \in Callers, ty \in EventTypes : EmitCheck(t, ty)
    \/ \E t \in Callers : EmitSelect(t)
    \/ \E c \in Consumers : RunSelect(c)
    \/ \E c \in Consumers : HandleEventSnapshot(c)
    \/ \E c \in Consumers : HandlerLoop(c)
    \/ \E c \in Consumers, err \in BOOLEAN : HandleReturn(c, err)
    \/ \E c \in Consumers : HandleEventReturn(c)

\* Every interleaving of callers and consumers.
Spec == Init /\ [][Next]_vars

\* NewEventLoop, line 68: el.ctx is derived from the context the caller
\* passed, so cancelling that context cancels el.ctx; no field of the loop
\* is written.
ParentCancel ==
    /\ panicked = NoPanic
    /\ ~ctxDone
    /\ ctxDone' = TRUE
    /\ pendingAtCancel' = IdSet(events)
    /\ UNCHANGED <<running, closed, events, handlers, wg, panicked>>
    /\ UNCHANGED <<callerVars, consumerVars, dispatchHist, sent, recvLog>>
    /\ UNCHANGED lifeHist
    /\ UNCHANGED notEventLoop

\* IsRunning, lines 200-204: the flag, read under the read lock.
IsRunning == running

\* Calls made one after another: a call begins when no other call is in
\* progress; the consumer goroutines run alongside.
NoCallInProgress == \A u \in Callers : pc[u] = "idle"
SequentialNext ==
    \/ /\ NoCallInProgress
       /\ \/ \E t \in Callers, h \in HandlerKinds : RegisterHandler(t, h)
          \/ \E t \in Callers : StartLock(t)
          \/ \E t \in Callers : StopLock(t)
          \/ \E t \in Callers, ty \in EventTypes : EmitCheck(t, ty)
    \/ \E t \in Callers : StartSpawn(t)
    \/ \E t \in Callers : StopCancel(t)
    \/ \E t \in Callers : StopClose(t)
    \/ \E t \in Callers : StopWait(t)
    \/ \E t \in Callers : StopWake(t)
    \/ \E t \in Callers : EmitSelect(t)
    \/ \E c \in Consumers : RunSelect(c)
    \/ \E c \in Consumers : HandleEventSnapshot(c)
    \/ \E c \in Consumers : HandlerLoop(c)
    \/ \E c \in Consumers, err \in BOOLEAN : HandleReturn(c, err)
    \/ \E c \in Consumers : HandleEventReturn(c)
SequentialSpec == Init /\ [][SequentialNext]_vars

\* Sequential calls on a loop whose parent context may be cancelled.
ParentNext == SequentialNext \/ ParentCancel
ParentSpec == Init /\ [][ParentNext]_vars

\* Every interleaving of Start, Emit, RegisterHandler and the consumers on a
\* loop with the larger channel that is never stopped.
BufferSpec == BufferInit /\ [][NextRunning]_vars

\* A loop that is never stopped, on which every goroutine that is inside a
\* call or inside run keeps being scheduled and every handler invocation
\* returns; callers need not begin new calls.
FairSpec ==
    /\ BufferInit
    /\ [][NextRunning]_vars
    /\ \A t \in Callers : WF_vars(CallerStep(t))
    /\ \A c \in Consumers : WF_vars(ConsumerStep(c))

\* The steps that complete a Stop already past its critical section.
StopStep(t) ==
    \/ StopCancel(t)
    \/ StopClose(t)
    \/ StopWait(t)
    \/ StopWake(t)

\* Every interleaving of Start, Stop, Emit and RegisterHandler, on which every
\* goroutine that is inside a call or inside run keeps being scheduled and
\* every handler invocation returns; callers need not begin new calls.
FairStopSpec ==
    /\ Init
    /\ [][Next]_vars
    /\ \A t \in Callers : WF_vars(CallerStep(t))
    /\ \A t \in Callers : WF_vars(StopStep(t))
    /\ \A c \in Consumers : WF_vars(ConsumerStep(c))

\* ----------------------------------------------------------- MessageQueue
\* The calls that begin with q.mu.Lock().
LockedOps == {"Enqueue", "Close", "IsClosed", "Size"}

\* A caller begins Enqueue, Close, IsClosed or Size: it calls q.mu.Lock()
\* (lines 139, 166, 178, 185).  The message passed is numbered by the call.
QueueCall(t, op) ==
    /\ qPanic = NoPanic
    /\ mq[t].pc = "idle"
    /\ qCalls < MaxQueueCalls
    /\ qCalls' = qCalls + 1
    /\ mq' = [mq EXCEPT ![t] = [pc |-> "lock", op |-> op, msg |-> qCalls + 1]]
    /\ UNCHANGED <<queue, qClosed, qCtxDone, qChanClosed, qMu, qRet, qPanic>>
    /\ UNCHANGED notQueue

\* q.mu.Lock() returns: the mutex was free.
QueueLock(t) ==
    /\ qPanic = NoPanic
    /\ mq[t].pc = "lock"
    /\ qMu = NoOne
    /\ qMu' = t
    /\ mq' = [mq EXCEPT ![t].pc = "locked"]
    /\ UNCHANGED <<queue, qClosed, qCtxDone, qChanClosed, qRet, qCalls, qPanic>>
    /\ UNCHANGED notQueue

\* Enqueue, lines 142-144: the test of q.closed, made with q.mu held; the
\* deferred Unlock runs when the call returns.
EnqueueCheck(t) ==
    /\ qPanic = NoPanic
    /\ mq[t].pc = "locked"
    /\ mq[t].op = "Enqueue"
    /\ IF qClosed
       THEN /\ qRet' = QueueReturn("Enqueue", t, "none", ErrQueueClosed)
            /\ qMu' = NoOne
            /\ mq' = [mq EXCEPT ![t] = QueueIdle]
       ELSE /\ mq' = [mq EXCEPT ![t].pc = "select"]
            /\ UNCHANGED <<qRet, qMu>>
    /\ UNCHANGED <<queue, qClosed, qCtxDone, qChanClosed, qCalls, qPanic>>
    /\ UNCHANGED notQueue

\* Enqueue, lines 146-151: the select, made with q.mu still held.  It has no
\* default: the call waits until the buffer has room (or the channel is
\* closed, and the send panics) or the context is cancelled.
EnqueueSelect(t) ==
    /\ qPanic = NoPanic
    /\ mq[t].pc = "select"
    /\ mq[t].op = "Enqueue"
    /\ \/ /\ qChanClosed
          /\ qPanic' = PanicSendOnClosed
          /\ UNCHANGED <<queue, qRet, qMu, mq>>
       \/ /\ ~qChanClosed
          /\ Len(queue) < BufferSize
          /\ queue' = Append(queue, mq[t].msg)
          /\ qRet' = QueueReturn("Enqueue", t, "none", "nil")
          /\ qMu' = NoOne
          /\ mq' = [mq EXCEPT ![t] = QueueIdle]
          /\ UNCHANGED qPanic
       \/ /\ qCtxDone
          /\ qRet' = QueueReturn("Enqueue", t, "none", ErrQueueCancelled)
          /\ qMu' = NoOne
          /\ mq' = [mq EXCEPT ![t] = QueueIdle]
          /\ UNCHANGED <<queue, qPanic>>
    /\ UNCHANGED <<qClosed, qCtxDone, qChanClosed, qCalls>>
    /\ UNCHANGED notQueue

\* Dequeue, lines 155-162: a select without the mutex.  A receive is ready
\* when the buffer holds a message or the channel is closed (it then gives
\* the zero value); the Done case is ready when the context is cancelled.
Dequeue(t) ==
    /\ qPanic = NoPanic
    /\ mq[t].pc = "idle"
    /\ qCalls < MaxQueueCalls
    /\ \/ /\ queue # <<>>
          /\ queue' = Tail(queue)
          /\ qRet' = QueueReturn("Dequeue", t, Head(queue), "nil")
       \/ /\ queue = <<>>
          /\ qChanClosed
          /\ qRet' = QueueReturn("Dequeue", t, 0, "nil")
          /\ UNCHANGED queue
       \/ /\ qCtxDone
          /\ qRet' = QueueReturn("Dequeue", t, 0, ErrQueueCancelled)
          /\ UNCHANGED queue
    /\ qCalls' = qCalls + 1
    /\ UNCHANGED <<qClosed, qCtxDone, qChanClosed, qMu, mq, qPanic>>
    /\ UNCHANGED notQueue

\* Close, lines 169-171: on an open queue the flag is set and the context
\* cancelled; on a closed one the call returns.
CloseCancel(t) ==
    /\ qPanic = NoPanic
    /\ mq[t].pc = "locked"
    /\ mq[t].op = "Close"
    /\ IF qClosed
       THEN /\ qRet' = QueueReturn("Close", t, "none", "nil")
            /\ qMu' = NoOne
            /\ mq' = [mq EXCEPT ![t] = QueueIdle]
            /\ UNCHANGED <<qClosed, qCtxDone>>
       ELSE /\ qClosed' = TRUE
            /\ qCtxDone' = TRUE
            /\ mq' = [mq EXCEPT ![t].pc = "close"]
            /\ UNCHANGED <<qRet, qMu>>
    /\ UNCHANGED <<queue, qChanClosed, qCalls, qPanic>>
    /\ UNCHANGED notQueue

\* Close, lines 172-174: close(q.queue) and the deferred Unlock.
CloseChannel(t) ==
    /\ qPanic = NoPanic
    /\ mq[t].pc = "close"
    /\ IF qChanClosed
       THEN /\ qPanic' = PanicCloseOfClosed
            /\ UNCHANGED <<qChanClosed, qRet, qMu, mq>>
       ELSE /\ qChanClosed' = TRUE
            /\ qRet' = QueueReturn("Close", t, "none", "nil")
            /\ qMu' = NoOne
            /\ mq' = [mq EXCEPT ![t] = QueueIdle]
            /\ UNCHANGED qPanic
    /\ UNCHANGED <<queue, qClosed, qCtxDone, qCalls>>
    /\ UNCHANGED notQueue

\* IsClosed, lines 177-181.
IsClosed(t) ==
    /\ qPanic = NoPanic
    /\ mq[t].pc = "locked"
    /\ mq[t].op = "IsClosed"
    /\ qRet' = QueueReturn("IsClosed", t, qClosed, "nil")
    /\ qMu' = NoOne
    /\ mq' = [mq EXCEPT ![t] = QueueIdle]
    /\ UNCHANGED <<queue, qClosed, qCtxDone, qChanClosed, qCalls, qPanic>>
    /\ UNCHANGED notQueue

\* Size, lines 184-191: 0 on a closed queue, len(q.queue) otherwise.
Size(t) ==
    /\ qPanic = NoPanic
    /\ mq[t].pc = "locked"
    /\ mq[t].op = "Size"
    /\ qRet' = QueueReturn("Size", t, IF qClosed THEN 0 ELSE Len(queue), "nil")
    /\ qMu' = NoOne
    /\ mq' = [mq EXCEPT ![t] = QueueIdle]
    /\ UNCHANGED <<queue, qClosed, qCtxDone, qChanClosed, qCalls, qPanic>>
    /\ UNCHANGED notQueue

\* The steps of a queue call in progress.
QueueStep(t) ==
    \/ QueueLock(t)
    \/ EnqueueCheck(t)
    \/ EnqueueSelect(t)
    \/ CloseCancel(t)
    \/ CloseChannel(t)
    \/ IsClosed(t)
    \/ Size(t)

QueueNext ==
    \/ \E t \in Callers, op \in LockedOps : QueueCall(t, op)
    \/ \E t \in Callers : Dequeue(t)
    \/ \E t \in Callers : QueueStep(t)
QueueSpec == Init /\ [][QueueNext]_vars
\* Every call in progress keeps being scheduled; nobody has to begin a call,
\* so a Dequeue need not come.
QueueFairSpec ==
    /\ Init
    /\ [][QueueNext]_vars
    /\ \A t \in Callers : WF_vars(QueueStep(t))

TypeOK ==
    /\ running \in BOOLEAN
    /\ closed \in BOOLEAN
    /\ ctxDone \in BOOLEAN
    /\ bufferSize \in MinQueue..MaxQueue
    /\ Len(events) <= bufferSize
    /\ wg \in 0..MaxConsumers
    /\ wg = Cardinality({c \in Consumers : Alive(c)})
    /\ (NeverStarted \/ stopDone) => ~running

\* ------------------------------------------------------------ properties
InHandler(c) == cpc[c] = "in_handler"
\* A Stop call of caller t returns in this step (line 109 or line 118).
StopReturns(t) ==
    \/ StopLock(t) /\ ~running
    \/ (StopWait(t) \/ StopWake(t)) /\ pc'[t] = "idle"
\* No Start overlaps or follows a Stop that has returned, or none ever began.
Stopped == NeverStarted \/ stopDone
\* The positions 1..n of handler list s whose handler accepts event type ty.
Matching(s, ty, n) ==
    SelectSeq([i \in 1..n |-> i], LAMBDA i : CanHandle(s[i], ty))

\* C1: dispatch is FIFO and serial: while a handler runs for an event, no
\* other handler invocation is in progress and the dispatch of every event
\* enqueued earlier has completed.
C1_FifoSerialDispatch ==
    /\ Cardinality({c \in Consumers : InHandler(c)}) <= 1
    /\ \A c \in Consumers :
           InHandler(c) => \A k \in 1..(cur[c].id - 1) : k \in finished

\* C2: when a Stop call returns on a loop that was started, every consumer
\* goroutine has exited (so no handler invocation is in flight), whichever
\* caller's Stop it is.
C2_StopReturnsAfterConsumerExit ==
    [][\A t \in Callers :
           (StopReturns(t) /\ ~NeverStarted)
               => \A c \in Consumers : cpc'[c] \in {"none", "exited"}]_vars

\* C3: Emit returns nil, ErrEventLoopNotRunning or ErrEventQueueFull and
\* never sends on the closed event channel.
C3_EmitNeverSendsOnClosed ==
    /\ panicked # PanicSendOnClosed
    /\ lastRet.op = "Emit"
           => lastRet.val \in {"nil", ErrEventLoopNotRunning, ErrEventQueueFull}

\* C4: Emit on a loop that was never started, or whose Stop has returned,
\* returns ErrEventLoopNotRunning and enqueues nothing.
C4_EmitOnStoppedLoop ==
    [][\A t \in Callers, ty \in EventTypes :
           (EmitCheck(t, ty) /\ Stopped)
               => /\ lastRet' = Ret("Emit", 125, ErrEventLoopNotRunning)
                  /\ pc'[t] = "idle"
                  /\ events' = events
                  /\ sent' = sent]_vars

C4_Witness ==
    /\ lastRet = Ret("Emit", 125, ErrEventLoopNotRunning)
    /\ stopDone
    /\ ~NeverStarted
    /\ events # <<>>

\* The channel holds, in enqueue order, exactly the events sent and not yet
\* received, and never more than its capacity.
QueueIsFifoBuffer ==
    /\ Len(events) <= bufferSize
    /\ Len(recvLog) + Len(events) = sent
    /\ \A i \in 1..Len(events) : events[i].id = Len(recvLog) + i

\* C5: on a running loop an Emit that finds the queue full returns
\* ErrEventQueueFull in that step, without waiting, and leaves the queue as
\* it was; when the consumer has taken no event the queue then still holds
\* exactly the first bufferSize events sent, in the order they were sent.
C5_EmitOnFullQueue ==
    /\ []QueueIsFifoBuffer
    /\ [][\A t \in Callers :
              (EmitSelect(t) /\ ~ctxDone /\ ~closed /\ Len(events) = bufferSize)
                  => /\ lastRet' = Ret("Emit", 135, ErrEventQueueFull)
                     /\ pc'[t] = "idle"
                     /\ events' = events
                     /\ recvLog = <<>>
                           => [i \in 1..Len(events') |-> events'[i].id]
                                 = [i \in 1..bufferSize |-> i]]_vars

\* The third Emit has returned ErrEventQueueFull on a running loop whose
\* consumer has taken no event, and the queue holds events 1 and 2 in order.
C5_Witness ==
    /\ lastRet = Ret("Emit", 135, ErrEventQueueFull)
    /\ running
    /\ recvLog = <<>>
    /\ sent = bufferSize
    /\ Len(events) >= 2
    /\ [i \in 1..Len(events) |-> events[i].id] = [i \in 1..bufferSize |-> i]

\* C6: Start on a running loop returns nil and changes nothing, so without a
\* Stop at most one consumer is ever spawned, and exactly one exists once
\* the Start calls have returned.
C6_StartIdempotent ==
    /\ [](~StopBegun => Cardinality({c \in Consumers : cpc[c] # "none"}) <= 1)
    /\ []((~StopBegun /\ ~NeverStarted /\ ~StartInProgress)
              => Cardinality({c \in Consumers : Alive(c)}) = 1)
    /\ [][\A t \in Callers :
              (StartLock(t) /\ running)
                  => /\ lastRet' = Ret("Start", 92, "nil")
                     /\ UNCHANGED <<loopVars, pc, arg, consumerVars>>
                     /\ UNCHANGED <<dispatchHist, queueHist, lifeHist>>]_vars

C6_Witness ==
    /\ lastRet = Ret("Start", 92, "nil")
    /\ running
    /\ ~StopBegun
    /\ Cardinality({c \in Consumers : Alive(c)}) = 1

\* C7: Stop on a loop that is not running returns without cancelling or
\* closing anything and leaves the loop unchanged.
C7_StopIdempotent ==
    [][\A t \in Callers :
           (StopLock(t) /\ ~running)
               => /\ lastRet' = Ret("Stop", 109, "return")
                  /\ UNCHANGED <<loopVars, pc, arg, consumerVars>>
                  /\ UNCHANGED <<dispatchHist, queueHist, clean>>]_vars

C7_Witness ==
    /\ lastRet = Ret("Stop", 109, "return")
    /\ closed
    /\ ctxDone
    /\ panicked = NoPanic
    /\ \A t \in Callers : pc[t] = "idle"

\* C8: in the dispatch of an event the handlers invoked so far are exactly
\* the handlers of the snapshot that accept the event's type, each once and
\* in registration order, whether or not earlier ones failed; and a consumer
\* leaves the loop only after cancellation, never because a handler failed.
C8_EveryMatchingHandlerInvoked ==
    /\ \A c \in Consumers :
           /\ cpc[c] = "range"
                  => invoked[c] = Matching(snap[c], cur[c].type, idx[c] - 1)
           /\ cpc[c] = "in_handler"
                  => invoked[c] = Matching(snap[c], cur[c].type, idx[c])
    /\ \A c \in Consumers : cpc[c] = "exited" => ctxDone

C8_Witness ==
    \E c \in Consumers :
        /\ cpc[c] = "range"
        /\ idx[c] = Len(snap[c]) + 1
        /\ Len(snap[c]) = MaxHandlers
        /\ invoked[c] = [i \in 1..MaxHandlers |-> i]
        /\ ~handled[c]
        /\ finished # {}

\* C9: on a loop that is never stopped every event sent to the queue is
\* received once and its dispatch completes, and the queue ends up empty.
C9_EveryEventDispatched ==
    /\ [](\A i, j \in 1..Len(recvLog) : recvLog[i] = recvLog[j] => i = j)
    /\ \A id \in EventIds : [](id \in IdSet(events) => <>(id \in finished))
    /\ <>[](events = <<>>)

C9_Witness ==
    /\ finished = EventIds
    /\ events = <<>>
    /\ \A c \in Consumers : Alive(c) => cpc[c] = "select"

\* C10: no handler is invoked for an event that was still in the queue when
\* Stop cancelled the context.
C10_PendingEventsDropped ==
    \A c \in Consumers : InHandler(c) => cur[c].id \notin pendingAtCancel

\* C11: every call to Stop that has passed its running test eventually
\* returns, whatever events are queued and whatever Emit and RegisterHandler
\* calls run concurrently; handlers terminate and never call Stop.
InStop(t) ==
    pc[t] \in {"stop_cancel", "stop_close", "stop_wait", "stop_blocked",
               "stop_released"}

C11_StopEventuallyReturns ==
    \A t \in Callers : InStop(t) ~> ~InStop(t)

\* Unless the process panics, a Stop past its running test returns.
StopReturnsUnlessPanic ==
    \A t \in Callers : InStop(t) ~> (~InStop(t) \/ panicked # NoPanic)

\* C12: the handlers invoked for one event are those of the handler list as it
\* was when handleEvent copied it: the copy is the list of that moment, it
\* does not change while the event is dispatched although RegisterHandler
\* appends to the list, every handler invoked is taken from the copy, and the
\* dispatch ends having invoked the matching handlers of the copy; a later
\* dispatch copies the list again and so sees the handlers registered since.
Dispatching(c) == cpc[c] \in {"range", "in_handler"}

C12_DispatchUsesSnapshot ==
    [][\A c \in Consumers :
          /\ HandleEventSnapshot(c) => snap'[c] = handlers
          /\ (Dispatching(c) /\ cpc'[c] \in {"range", "in_handler"})
                 => snap'[c] = snap[c]
          /\ (cpc[c] = "range" /\ cpc'[c] = "in_handler")
                 => /\ idx[c] \in 1..Len(snap[c])
                    /\ CanHandle(snap[c][idx[c]], cur[c].type)
          /\ (Dispatching(c) /\ cpc'[c] \notin {"range", "in_handler"})
                 => invoked[c] = Matching(snap[c], cur[c].type, Len(snap[c]))
      ]_vars

\* A dispatch has invoked the handlers of its copy while the list has grown
\* by a handler that matches the event.
C12_Witness ==
    \E c \in Consumers :
        /\ cpc[c] = "range"
        /\ idx[c] = Len(snap[c]) + 1
        /\ invoked[c] # <<>>
        /\ Len(handlers) > Len(snap[c])
        /\ CanHandle(handlers[Len(handlers)], cur[c].type)

\* ------------------------------------------------ message router claims
\* The handlers of type ty as the router holds them.
HandlersOf(ty) == ListOf(routerHandlers[ty])
\* Positions i before j of a list.
Pairs(q) == {p \in (1..Len(q)) \X (1..Len(q)) : p[1] < p[2]}

\* C13: whenever no RegisterHandler call is in progress, the list of every
\* message type is in non-decreasing priority order and handlers of equal
\* priority are in the order of their registration.
C13_SortedStable ==
    routerMu = "free" =>
        \A ty \in MessageTypes : \A p \in Pairs(HandlersOf(ty)) :
            LET a == HandlersOf(ty)[p[1]]
                b == HandlersOf(ty)[p[2]]
            IN  /\ Priority(a.kind) <= Priority(b.kind)
                /\ Priority(a.kind) = Priority(b.kind) => a.reg < b.reg

\* A list of three or more handlers in which a handler registered later
\* stands before one registered earlier and two handlers share a priority.
C13_Witness ==
    /\ routerMu = "free"
    /\ \E ty \in MessageTypes :
          /\ Len(HandlersOf(ty)) >= 3
          /\ \E p \in Pairs(HandlersOf(ty)) :
                HandlersOf(ty)[p[1]].reg > HandlersOf(ty)[p[2]].reg
          /\ \E p \in Pairs(HandlersOf(ty)) :
                Priority(HandlersOf(ty)[p[1]].kind)
                    = Priority(HandlersOf(ty)[p[2]].kind)

\* C14: once RegisterHandler(h) has returned, h is in the list of every
\* message type that h.CanHandle accepts, the types beyond the five built-in
\* ones included.
C14_RegisteredForEveryAcceptedType ==
    routerMu = "free" =>
        \A n \in 1..Len(registered) : \A ty \in MessageTypes :
            MsgCanHandle(registered[n], ty) =>
                \E i \in 1..Len(HandlersOf(ty)) :
                    HandlersOf(ty)[i] = HandlerValue(registered[n], n)

\* C15: Route of a message whose type has no handler returns the 'no handlers
\* registered' error without invoking a handler, and leaves the router as it
\* was, so that later calls find it in working order.
C15_RouteWithoutHandlers ==
    [][\A ty \in RoutedTypes :
          (RouteRead(ty) /\ HandlersOf(ty) = <<>>)
              => /\ route'.pc = "returned"
                 /\ route'.ret = ErrNoHandlers(ty)
                 /\ route'.log = <<>>
                 /\ UNCHANGED <<routerMu, routerHandlers, reg, registered>>
      ]_vars

\* Route has returned the error for a type without handlers on a router that
\* holds handlers of other types.
C15_Witness ==
    /\ route.pc = "returned"
    /\ route.ret = ErrNoHandlers(route.ty)
    /\ route.log = <<>>
    /\ \E ty \in MessageTypes : Len(HandlersOf(ty)) >= 2

\* C16: a Route call that found handlers has, when it returns, invoked every
\* handler of the list it read exactly once and in the list's order, failing
\* handlers notwithstanding, and returns the error of the first handler that
\* failed, nil if none failed.
C16_RouteInvokesAll ==
    (route.pc = "returned" /\ route.list # <<>>) =>
        /\ route.log = route.list
        /\ route.ret = IF route.failed = <<>> THEN NilError
                       ELSE HandlerError(route.failed[1])

\* C17: a store to, or a truncation of, the slice GetHandlers returned leaves
\* the router's lists and a Route call's view of them unchanged, and
\* GetHandlers returns the router's list of that moment in an array of its
\* own.
C17_GetHandlersReturnsCopy ==
    [][/\ (GotTruncate \/ \E i \in 1..MaxRegistrations, v \in StoredValues :
                              GotWrite(i, v))
          => UNCHANGED <<routerHandlers, route>>
       /\ \A ty \in RoutedTypes :
             (GetHandlers(ty) /\ routerHandlers[ty].exists)
                 => /\ ~got'.shared
                    /\ SubSeq(got'.own, 1, got'.len) = HandlersOf(ty)
      ]_vars

\* The caller has overwritten an element of the slice it was given, which
\* now differs from the router's list.
C17_Witness ==
    /\ got.writes > 0
    /\ got.len >= 2
    /\ got.len = Len(HandlersOf(got.ty))
    /\ SubSeq(got.own, 1, got.len) # HandlersOf(got.ty)

\* -------------------------------------------------- tool registry claims
\* The RegisterTool calls made for a name, by their place in lock order.
Attempts(log, name) == {n \in 1..Len(log) : log[n].name = name}
\* The first of a non-empty set of calls.
First(att) == CHOOSE n \in att : \A m \in att : n <= m

\* C18: RegisterTool for a name that is taken returns the 'already registered'
\* error and leaves the registry unchanged; after any calls, made by any
\* callers, exactly one registration of each name attempted has succeeded, the
\* first, its tool is the one the registry holds, and it is the one whose
\* handler ExecuteTool calls.
C18_ToolNamesUnique ==
    [][/\ \A t \in Callers, name \in ToolNames :
             (RegisterTool(t, name) /\ tools[name] # NoTool)
                 => /\ tools' = tools
                    /\ toolRet'[t] =
                           RegisterResult(name, ErrAlreadyRegistered(name))
       /\ \A name \in ToolNames :
             LET att == Attempts(toolLog', name)
             IN  IF att = {}
                 THEN tools'[name] = NoTool
                 ELSE /\ tools'[name] = ToolValue(name, First(att))
                      /\ {n \in att : toolLog'[n].ok} = {First(att)}
       /\ \A t \in Callers :
             exec'[t].pc = "in_handler"
                 => exec'[t].tool =
                        ToolValue(exec'[t].name,
                                  First(Attempts(toolLog', exec'[t].name)))
      ]_vars

\* Two callers have registered the same name: one call returned nil, the
\* other the error, and a third call for the name has been made.
C18_Witness ==
    \E t, u \in Callers, name \in ToolNames :
        /\ toolRet[t] = RegisterResult(name, "nil")
        /\ toolRet[u] = RegisterResult(name, ErrAlreadyRegistered(name))
        /\ Cardinality(Attempts(toolLog, name)) >= 2
        /\ tools[name] = ToolValue(name, First(Attempts(toolLog, name)))

\* C19: ExecuteTool for a name that is not registered returns, with a nil Go
\* error, a ToolResult that carries the call's id and name, a non-empty Error
\* and no Result, and calls no handler.
C19_ExecuteUnknownTool ==
    [][\A t \in Callers, id \in CallIds, name \in ToolNames :
          (ExecuteLookup(t, id, name) /\ tools[name] = NoTool)
              => /\ toolRet'[t].op = "ExecuteTool"
                 /\ toolRet'[t].id = id
                 /\ toolRet'[t].name = name
                 /\ toolRet'[t].error # ""
                 /\ toolRet'[t].result = "nil"
                 /\ toolRet'[t].err = "nil"
                 /\ exec'[t].pc = "idle"
                 /\ handlerRuns' = handlerRuns
      ]_vars

\* A call for an unregistered name has returned the not-found result on a
\* registry that holds another tool; no handler was called.
C19_Witness ==
    \E t \in Callers :
        /\ toolRet[t].op = "ExecuteTool"
        /\ toolRet[t].error = ToolNotFound(toolRet[t].name)
        /\ tools[toolRet[t].name] = NoTool
        /\ \E name \in ToolNames : tools[name] # NoTool
        /\ handlerRuns = <<>>

\* C20: every ExecuteTool call returns, with a nil Go error, a ToolResult that
\* carries the call's id and name; its Error is empty exactly when the tool
\* was found and the handler returned no error, whatever the error's message;
\* and when its Error is not empty its Result is unset.
C20_ToolResultShape ==
    [][\A t \in Callers :
          /\ \A id \in CallIds, name \in ToolNames :
                (ExecuteLookup(t, id, name) /\ tools[name] = NoTool)
                    => /\ toolRet'[t].id = id
                       /\ toolRet'[t].name = name
                       /\ toolRet'[t].error # ""
                       /\ toolRet'[t].result = "nil"
                       /\ toolRet'[t].err = "nil"
          /\ \A o \in HandlerOutcomes :
                ExecuteReturn(t, o)
                    => /\ toolRet'[t].id = exec[t].id
                       /\ toolRet'[t].name = exec[t].name
                       /\ (toolRet'[t].error = "") <=> ~o.err
                       /\ toolRet'[t].error # "" => toolRet'[t].result = "nil"
                       /\ toolRet'[t].err = "nil"
      ]_vars

\* C21: the registry's lock is held only by callers inside GetTool, never by
\* one whose tool handler is running; so while a handler runs and no caller is
\* inside GetTool, RegisterTool, GetTool, ListTools and ExecuteTool calls of
\* the other callers and of the handler itself can take their step at once.
C21_NoLockHeldInHandler ==
    /\ toolReaders = {u \in Callers : exec[u].pc = "get_tool"}
    /\ \A t \in Callers :
          exec[t].pc = "in_handler"
              => /\ t \notin toolReaders
                 /\ ENABLED GetTool(t, exec[t].name)
                 /\ ENABLED ListTools(t)
                 /\ \A u \in Callers :
                       /\ exec[u].pc = "idle" => ENABLED ListTools(u)
                       /\ exec[u].pc = "get_tool"
                             => ENABLED ExecuteLookup(u, exec[u].id,
                                                      exec[u].name)
                 /\ ((\A u \in Callers : exec[u].pc # "get_tool")
                         /\ Len(toolLog) < MaxToolRegs)
                       => /\ ENABLED RegisterTool(t, exec[t].name)
                          /\ \A u \in Callers, name \in ToolNames :
                                exec[u].pc = "idle"
                                    => ENABLED RegisterTool(u, name)
                 /\ ((\A u \in Callers : exec[u].pc # "get_tool")
                         /\ toolCalls < MaxToolCalls)
                       => \A u \in Callers, id \in CallIds :
                             exec[u].pc = "idle"
                                 => ENABLED ExecuteGetTool(u, id, exec[t].name)

\* While one caller's handler runs, a RegisterTool call made after the handler
\* was called has stored a tool, another caller's ExecuteTool call has reached
\* its own handler, and the first caller's handler has itself called the
\* registry.
C21_Witness ==
    \E t \in Callers :
        \E u \in Callers \ {t} :
            /\ exec[t].pc = "in_handler"
            /\ Len(toolLog) > exec[t].regs
            /\ toolLog[Len(toolLog)].ok
            /\ exec[u].pc = "in_handler"
            /\ toolRet[t].op = "ListTools"
            /\ Cardinality(toolRet[t].list) = 2

\* -------------------------------------------------- memory manager claims
\* C22: the short-term store never holds more entries than ShortTermCapacity
\* once a SetShortTermMemory call has returned, whatever the keys and the
\* clock values of the writes (the write lock is held from the insertion to
\* the return, so every state shows the store as some call left it).
C22_ShortTermCapacityBounded ==
    Cardinality(Resident(shortTerm)) <= ShortTermCapacity

\* The step in which a SetShortTermMemory call stores its entry and returns.
SetShortReturns(t) == mem[t].pc = "set" /\ mem'[t].pc = "idle"
\* The timestamp of key j once the call of t has inserted its entry.
StampAfterInsert(t, j) == IF j = mem[t].key THEN now ELSE shortTerm[j].ts

\* C23: a SetShortTermMemory that makes the store exceed its capacity evicts
\* exactly one entry, one whose timestamp is minimal among the entries
\* resident after the insertion; one that overwrites a resident key leaves the
\* set of resident keys as it was.
C23_EvictsOneOldest ==
    [][\A t \in Callers :
          SetShortReturns(t)
              => LET before == Resident(shortTerm)
                     inserted == before \cup {mem[t].key}
                     after == Resident(shortTerm')
                 IN
                 IF Cardinality(inserted) > ShortTermCapacity
                    /\ mem[t].key \notin before
                 THEN \E victim \in inserted :
                         /\ after = inserted \ {victim}
                         /\ \A j \in inserted :
                               StampAfterInsert(t, victim)
                                   <= StampAfterInsert(t, j)
                 ELSE mem[t].key \in before => after = before
      ]_vars

\* C24: GetShortTermMemory(k) returns (nil, false, nil) when k is absent;
\* when k is present with a TTL and now - timestamp > ttl it gives up the read
\* lock, deletes k and returns (nil, false, nil); otherwise it returns
\* (value, true, nil) and leaves the store alone.  The value of a resident
\* entry is the one the last SetShortTermMemory for its key stored.  No return
\* carries an error.
C24_GetShortTermMemory ==
    [][/\ \A t \in Callers :
             GetShortRead(t)
                 => LET k == mem[t].key
                        e == shortTerm[k]
                    IN  IF e = NoEntry
                        THEN /\ memRet' = MemReturn("GetShortTermMemory", t, k,
                                                    NilValue, FALSE, "nil")
                             /\ shortTerm' = shortTerm
                        ELSE IF e.ttl # NoTTL /\ now - e.ts > e.ttl
                        THEN /\ mem'[t].pc = "upgrade"
                             /\ memRet' = memRet
                        ELSE /\ memRet' = MemReturn("GetShortTermMemory", t, k,
                                                    e.value, TRUE, "nil")
                             /\ shortTerm' = shortTerm
       /\ \A t \in Callers :
             GetShortDelete(t) => shortTerm'[mem[t].key] = NoEntry
       /\ \A t \in Callers :
             GetShortReturn(t)
                 => memRet' = MemReturn("GetShortTermMemory", t, mem[t].key,
                                        NilValue, FALSE, "nil")
       /\ \A k \in Keys :
             (shortTerm'[k] # shortTerm[k] /\ shortTerm'[k] # NoEntry)
                 => \E t \in Callers :
                       /\ SetShortReturns(t)
                       /\ mem[t].key = k
                       /\ shortTerm'[k].value = mem[t].value
      ]_vars

\* A Get has found its key expired and deleted it, after a Get of the same
\* manager had returned a value.
C24_Witness ==
    \E t \in Callers :
        /\ mem[t].pc = "return"
        /\ mem[t].entry # NoEntry
        /\ shortTerm[mem[t].key] = NoEntry
        /\ memRet.op = "GetShortTermMemory"
        /\ memRet.found

\* The steps in which a reading operation returns.
ReadReturns(t) ==
    \/ GetShortRead(t)
    \/ \E at \in ScanTimes : GetAllShortTermMemory(t, at)
    \/ GetMemoryStats(t)
    \/ \E at \in ScanTimes : SearchMemory(t, at)

\* C25: expiry is absolute.  No reading operation changes the store; an entry
\* changes only by being deleted or by a SetShortTermMemory for its key, which
\* stamps it with the clock and attaches the TTL when ttl > 0 and none
\* otherwise; a Get returns found only for an entry without TTL or not later
\* than timestamp + TTL; an entry without TTL is returned by every Get and
\* left alone by the cleanup.
C25_ExpiryAbsolute ==
    [][/\ \A t \in Callers : ReadReturns(t) => shortTerm' = shortTerm
       /\ \A k \in Keys :
             shortTerm'[k] # shortTerm[k]
                 => \/ shortTerm'[k] = NoEntry
                    \/ \E t \in Callers :
                          /\ SetShortReturns(t)
                          /\ mem[t].key = k
                          /\ shortTerm'[k].ts = now
                          /\ shortTerm'[k].ttl =
                                 (IF mem[t].ttl > 0 THEN mem[t].ttl ELSE NoTTL)
       /\ \A t \in Callers :
             GetShortRead(t)
                 => LET e == shortTerm[mem[t].key]
                    IN  /\ (mem'[t].pc = "idle" /\ memRet'.found)
                              => (e.ttl = NoTTL \/ now <= e.ts + e.ttl)
                        /\ (e # NoEntry /\ e.ttl = NoTTL)
                              => (memRet'.found /\ memRet'.value = e.value)
       /\ cleanupExpiredEntries
             => \A k \in Keys :
                   shortTerm[k].ttl = NoTTL => shortTerm'[k] = shortTerm[k]
      ]_vars

\* At the last clock value a Get has returned an entry that was written at
\* the first one with a ttl argument that is not positive, while an entry
\* written with a TTL is resident and expired.
C25_Witness ==
    /\ now = MaxTime
    /\ memRet.op = "GetShortTermMemory"
    /\ memRet.found
    /\ shortTerm[memRet.key].ts = 0
    /\ shortTerm[memRet.key].ttl = NoTTL
    /\ \E k \in Keys : shortTerm[k] # NoEntry /\ Expired(shortTerm[k], now)

\* C26: the delete of a Get that found its key expired removes only the entry
\* the Get examined: the entry is still the one it found, or already gone.
C26_ExpiryDeleteAtomic ==
    [][\A t \in Callers :
          GetShortDelete(t)
              => shortTerm[mem[t].key] \in {mem[t].entry, NoEntry}
      ]_vars

\* A caller or the cleanup goroutine is inside an operation.
MemBusy == sweep = "locked" \/ \E t \in Callers : mem[t].pc # "idle"

\* C27: no state of the manager is a deadlock: whenever an operation is in
\* progress some operation in progress can take its next step; a caller that
\* is in no operation, or between the two locks of Get's expiry path, holds
\* the lock in no mode, the lock has a writer only while no reader holds it,
\* and the cleanup holds it only inside cleanupExpiredEntries.
C27_NoDeadlock ==
    /\ MemBusy
          => ENABLED ((\E t \in Callers : MemoryStep(t)) \/ cleanupExpiredEntries)
    /\ \A t \in Callers :
          /\ mem[t].pc \in {"idle", "upgrade", "queued", "pending", "relock"}
                => (t \notin memMu.readers /\ memMu.writer # t)
          /\ t \in memMu.readers
                => mem[t].pc \in {"read", "return", "scan", "read_long"}
          /\ memMu.writer = t => mem[t].pc \in {"set", "delete", "set_long"}
    /\ memMu.writer # NoOne => memMu.readers = {}
    /\ memMu.writer = Sweeper <=> sweep = "locked"

\* A Get that found its key expired waits for the write lock while another
\* caller holds the read lock and the cleanup goroutine is running.
C27_Witness ==
    \E t \in Callers :
        /\ mem[t].pc = "pending"
        /\ memMu.readers # {}
        /\ sweep = "idle"

\* C28: every short-term entry whose TTL has elapsed is eventually removed
\* (or written again), even when no caller reads or writes its key.
C28_ExpiredEventuallyRemoved ==
    \A k \in Keys :
        (shortTerm[k] # NoEntry /\ Expired(shortTerm[k], now))
            ~> (shortTerm[k] = NoEntry \/ ~Expired(shortTerm[k], now))

\* C29: a SetLongTermMemory whose durable write fails returns an error and
\* leaves its entry in the map; a GetLongTermMemory returns what the map
\* holds, found; the file is not guaranteed to hold the key: a failed write
\* leaves it as it was, without data or, when only the close failed, with
\* the new snapshot, and whenever the file lacks the key the write can fail
\* and leave it lacking the key.
C29_FailedWriteKeepsEntry ==
    [][/\ \A t \in Callers, outcome \in SaveOutcomes :
             (SetLongStore(t, outcome) /\ outcome # "ok")
                 => /\ memRet'.op = "SetLongTermMemory"
                    /\ memRet'.err # "nil"
                    /\ longTerm'[mem[t].key].value = mem[t].value
                    /\ file'.data \in {file.data, NoData, Snapshot(longTerm')}
       /\ \A t \in Callers :
             (mem[t].pc = "set_long" /\ file.data[mem[t].key] = NoFileEntry)
                 => ENABLED (/\ \E outcome \in SaveOutcomes :
                                   SetLongStore(t, outcome)
                             /\ memRet'.err # "nil"
                             /\ file'.data[mem[t].key] = NoFileEntry)
       /\ \A t \in Callers :
             (GetLongRead(t) /\ longTerm[mem[t].key] # NoEntry)
                 => memRet' = MemReturn("GetLongTermMemory", t, mem[t].key,
                                        longTerm[mem[t].key].value, TRUE,
                                        "nil")
      ]_vars

\* After a write that failed, a Get has returned the value of a key that the
\* file does not hold.
C29_Witness ==
    /\ lastSave = "failed"
    /\ memRet.op = "GetLongTermMemory"
    /\ memRet.found
    /\ memRet.value \in LongValues
    /\ file.data[memRet.key] = NoFileEntry

\* C30: when the last SetLongTermMemory of a manager succeeded, a manager
\* constructed on the same path whose load succeeds holds for every key the
\* value the old manager held; and a missing or empty file gives an empty map
\* and no error.
C30_PersistenceRoundTrip ==
    [][\A io \in {"ok", "fail"} :
          NewMemoryManager(io)
              => /\ (lastSave = "ok" /\ loadErr' = "nil")
                       => \A k \in LongKeys :
                             longTerm'[k].value = longTerm[k].value
                 /\ (file.kind \in {"missing", "empty"} /\ io = "ok")
                       => /\ longTerm' = [k \in LongKeys |-> NoEntry]
                          /\ loadErr' = "nil"
      ]_vars

\* C31: when the file exists but cannot be read or parsed, NewMemoryManager
\* returns an error to its caller.
C31_LoadErrorSurfaced ==
    [][\A io \in {"ok", "fail"} :
          (NewMemoryManager(io) /\ LoadError(file, io) # "nil")
              => memRet'.err # "nil"
      ]_vars

\* C32: a key that a SetLongTermMemory stored with success stays in the file
\* and in the long-term map of the manager in use, whatever calls, failing
\* writes and re-constructions follow.
C32_LongTermDurable ==
    \A k \in durable :
        /\ file.kind = "json"
        /\ file.data[k] # NoFileEntry
        /\ longTerm[k] # NoEntry

\* The key or the rendered value contains the query, letter case ignored.
MatchesIgnoringCase(k, e, query) ==
    \/ Contains(ToLower(k), ToLower(query))
    \/ Contains(ToLower(Sprintf(e.value)), ToLower(query))
\* The elements of a sequence.
Range(q) == {q[i] : i \in 1..Len(q)}

\* C33: SearchMemory returns, each once, exactly the short-term entries that
\* are not expired when the call tests them (a moment between its beginning
\* and its return) and match the query and, only when includeLongTerm is
\* true, the long-term entries that match; no result is followed by a more
\* recent one; and the call changes neither tier.
C33_SearchMemory ==
    [][\A t \in Callers, at \in [Keys -> 0..MaxTime] :
          SearchMemory(t, at)
              => LET query == mem[t].key
                     res == memRet'.results
                     short == {k \in Keys :
                                  /\ shortTerm[k] # NoEntry
                                  /\ ~(shortTerm[k].ttl # NoTTL
                                       /\ at[k] - shortTerm[k].ts
                                              > shortTerm[k].ttl)
                                  /\ MatchesIgnoringCase(k, shortTerm[k],
                                                         query)}
                     long == {k \in LongKeys :
                                 /\ mem[t].long
                                 /\ longTerm[k] # NoEntry
                                 /\ MatchesIgnoringCase(k, longTerm[k], query)}
                 IN  /\ memRet'.op = "SearchMemory"
                     /\ memRet'.err = "nil"
                     /\ \A k \in Keys : now <= at[k] /\ at[k] <= now'
                     /\ Range(res) =
                            {[key |-> k, entry |-> shortTerm[k]] : k \in short}
                            \cup
                            {[key |-> k, entry |-> longTerm[k]] : k \in long}
                     /\ Len(res) = Cardinality(short) + Cardinality(long)
                     /\ \A i, j \in 1..Len(res) :
                           i < j => res[i].entry.ts >= res[j].entry.ts
                     /\ shortTerm' = shortTerm
                     /\ longTerm' = longTerm
      ]_vars

\* A search with an upper-case query has returned a short-term and a
\* long-term entry written at different times, the more recent first.
C33_Witness ==
    /\ memRet.op = "SearchMemory"
    /\ memRet.key = "TEST"
    /\ Len(memRet.results) = 2
    /\ memRet.results[1].entry.ts > memRet.results[2].entry.ts
    /\ \E i \in 1..2 : memRet.results[i].key \in LongKeys
    /\ \E i \in 1..2 : memRet.results[i].key \in Keys

\* Key k is one a sweep at clock value time removes: resident, with a TTL
\* that is exceeded by the time since the timestamp.
SweptAt(k, time) ==
    /\ shortTerm[k] # NoEntry
    /\ shortTerm[k].ttl # NoTTL
    /\ time - shortTerm[k].ts > shortTerm[k].ttl
SweptNow == {k \in Keys : SweptAt(k, now)}

\* C34: one pass of the sweep, made under the write lock, deletes all and only
\* the short-term entries that have a TTL and for which now - timestamp > ttl;
\* entries without a TTL, entries not yet expired and every long-term entry
\* stay as they were.  Get, GetAll, Search and Stats treat as expired exactly
\* the entries a sweep made when they test the entry would remove.
C34_SweepDeletesExpired ==
    [][/\ cleanupExpiredEntries
             => /\ memMu.writer = Sweeper
                /\ memMu.readers = {}
                /\ \A k \in Keys :
                      shortTerm'[k] = IF k \in SweptNow THEN NoEntry
                                      ELSE shortTerm[k]
                /\ longTerm' = longTerm
                /\ file' = file
       /\ \A t \in Callers :
             GetShortRead(t)
                 => (mem'[t].pc = "upgrade" <=> mem[t].key \in SweptNow)
       /\ \A t \in Callers, at \in [Keys -> 0..MaxTime] :
             GetAllShortTermMemory(t, at)
                 => /\ {r.key : r \in memRet'.entries}
                          = {k \in Resident(shortTerm) : ~SweptAt(k, at[k])}
                    /\ \A k \in Keys : now <= at[k] /\ at[k] <= now'
       /\ \A t \in Callers :
             GetMemoryStats(t)
                 => memRet'.stats.valid
                        = Cardinality(Resident(shortTerm) \ SweptNow)
       /\ \A t \in Callers, at \in [Keys -> 0..MaxTime] :
             SearchMemory(t, at)
                 => \A i \in 1..Len(memRet'.results) :
                       memRet'.results[i].key \in Keys
                           => ~SweptAt(memRet'.results[i].key,
                                       at[memRet'.results[i].key])
      ]_vars

\* A pass of the sweep has just removed an entry and has kept one without a
\* TTL that is older than any TTL.
C34_Witness ==
    /\ sweep = "swept"
    /\ \E k \in Keys : shortTerm[k] = NoEntry
    /\ \E k \in Keys :
          /\ shortTerm[k] # NoEntry
          /\ shortTerm[k].ttl = NoTTL
          /\ now - shortTerm[k].ts > 1

\* C35: when handleEvent finishes, the event is reported as unhandled exactly
\* when no handler of the list it copied accepts the event's type, also when
\* every handler that accepted it returned an error; the consumer goes on
\* with its loop.
C35_UnhandledIffNoMatch ==
    [][\A c \in Consumers :
          HandleEventReturn(c)
              => /\ WarnNoHandler(c)
                        <=> ~\E i \in 1..Len(snap[c]) :
                                CanHandle(snap[c][i], cur[c].type)
                 /\ cpc'[c] = "select"
      ]_vars

\* C36: at most one consumer goroutine is alive at any moment, for every
\* interleaving of Start and Stop calls.
C36_AtMostOneConsumer ==
    Cardinality({c \in Consumers : Alive(c)}) <= 1

\* C37: with calls made one after another, no sequence of Start, Stop and
\* Emit closes the event channel twice or sends on it after it was closed.
C37_NoPanicSequential ==
    panicked = NoPanic

\* C38: IsRunning is true only while a consumer goroutine is alive, and Emit
\* returns nil, ErrEventLoopNotRunning or ErrEventQueueFull only, also when
\* the context given to NewEventLoop is cancelled and Stop is never called.
C38_RunningAgreesWithConsumer ==
    /\ (IsRunning /\ NoCallInProgress) => \E c \in Consumers : Alive(c)
    /\ lastRet.op = "Emit"
          => lastRet.val \in {"nil", ErrEventLoopNotRunning, ErrEventQueueFull}

\* C39: a Route call that runs while RegisterHandler is called has, when it
\* returns, invoked each handler that was registered for the message's type
\* before the Route began exactly once, and these in priority order; none of
\* them is invoked twice or skipped.
C39_RouteDuringRegister ==
    (route.pc = "returned" /\ route.list # <<>>) =>
        SelectSeq(route.log, LAMBDA h : h \in Range(route.list)) = route.list

\* C40: the operations of the message queue do not block one another for
\* good: a Close, Size or IsClosed call that has begun returns, also while
\* an Enqueue waits on a full queue that nobody dequeues from, and an Enqueue
\* that waits returns once the queue is closed; an Enqueue on a closed queue
\* returns an error, and no call sends on the closed channel.
C40_QueueOpsReturn ==
    /\ [](qPanic = NoPanic)
    /\ [][\A t \in Callers :
             (EnqueueCheck(t) /\ qClosed)
                 => (qRet'.err = ErrQueueClosed /\ queue' = queue)]_vars
    /\ \A t \in Callers :
          (mq[t].pc = "lock" /\ mq[t].op \in {"Close", "Size", "IsClosed"})
              ~> (mq[t].pc = "idle")
====
